---- MODULE Spec2Model ----
(***************************************************************************)
(* Model of the chemical-formula tools of Assignment2: the union stack     *)
(* (unionStack.c), the formula expander, the parentheses validator and the *)
(* proton counter (formulaExpander.c), the periodic table                  *)
(* (periodicTable.c) and the command-line driver (parseFormula.c).         *)
(*                                                                         *)
(* A C string is a sequence of one-character strings; the terminating      *)
(* character is NUL and is what CharAt returns past the last character.    *)
(***************************************************************************)
EXTENDS Integers, Sequences, FiniteSets, TLC

VARIABLES
    formula,          \* the line buffer `formula` (without its terminator)
    p,                \* the cursor `p`, as a 1-based index into formula
    stack,            \* the main UnionStack of the running function
    poppedData,       \* processFormula's local poppedData
    poppedType,       \* processFormula's local poppedType
    emptyPop,         \* popUnion's "Can't pop from empty" diagnostics, by call site
    tempIndex,        \* processFormula's tempIndex after the last ')' it handled
    expandedFormula,  \* the string processFormula returns
    length,           \* processFormula's `length`
    bufferSize,       \* processFormula's `bufferSize`
    tempStack,        \* processFormula's tempStack
    stderr,           \* the diagnostics printed with perror
    valid,            \* checkParentheses' `valid`
    pc,               \* position of the running function or program
    args,             \* main's argc and argv[2]
    files,            \* the files the run finds: table, input, output, expanded.txt
    game,             \* latinsquare.c: play's square, size, i, j and val
    periodicTable,    \* main's array periodicTable[MAX_ELEMENTS]
    numElements,      \* main's numElements
    lineIndex,        \* validateParentheses' lineIndex
    overallValid,     \* validateParentheses' overallValid
    returned,         \* the value validateParentheses returned to main, or the
                      \* last stack call to the caller of the stack
    stdout,           \* the messages printed on standard output
    exitStatus,       \* the exit status of the program
    invoked,          \* which of formulaProcessor and countProtons were called
    outputFile,       \* the lines written to the output file
    expandedFile,     \* the lines written to expanded.txt
    totalAtomicNumber \* countProtons' totalAtomicNumber

scanVars == <<p, stack, poppedData, poppedType, emptyPop, tempIndex>>
outVars == <<expandedFormula, length, bufferSize, tempStack, stderr>>
tableVars == <<periodicTable, numElements>>
mainVars == <<args, files, game, lineIndex, overallValid, returned, stdout, exitStatus,
              invoked, outputFile, expandedFile>>

vars == <<formula, p, stack, poppedData, poppedType, emptyPop, tempIndex,
          expandedFormula, length, bufferSize, tempStack, stderr, valid, pc,
          args, files, game, periodicTable, numElements, lineIndex, overallValid,
          returned, stdout, exitStatus, invoked, outputFile, expandedFile,
          totalAtomicNumber>>

(***************************************************************************)
(* Bounds of the model.                                                    *)
(***************************************************************************)
MaxLen == 5
MaxMultiplier == 12

(***************************************************************************)
(* Characters, <ctype.h> and <stdlib.h>.                                   *)
(***************************************************************************)
NUL == "NUL"
EXIT_SUCCESS == 0
EXIT_FAILURE == 1
MAX_FORMULA_LENGTH == 1024
MAX_ELEMENTS == 118

UpperCase == {"A","B","C","D","E","F","G","H","I","J","K","L","M",
              "N","O","P","Q","R","S","T","U","V","W","X","Y","Z"}
LowerCase == {"a","b","c","d","e","f","g","h","i","j","k","l","m",
              "n","o","p","q","r","s","t","u","v","w","x","y","z"}
DigitSeq == <<"0","1","2","3","4","5","6","7","8","9">>
DigitChars == {DigitSeq[i] : i \in 1..10}

isupper(c) == c \in UpperCase
islower(c) == c \in LowerCase
isalpha(c) == isupper(c) \/ islower(c)
isdigit(c) == c \in DigitChars
DigitValue(c) == (CHOOSE i \in 1..10 : DigitSeq[i] = c) - 1

\* the decimal digits of a number that is not negative, as %d prints them
RECURSIVE Decimal(_)
Decimal(n) ==
    IF n < 10 THEN <<DigitSeq[n + 1]>>
    ELSE Append(Decimal(n \div 10), DigitSeq[(n % 10) + 1])

\* *(formula + i - 1): the character under a cursor, NUL at the terminator
CharAt(f, i) == IF i >= 1 /\ i <= Len(f) THEN f[i] ELSE NUL

(***************************************************************************)
(* unionStack.c.  The linked list hanging from `top` is the sequence of    *)
(* its nodes, top node first.                                              *)
(***************************************************************************)
Element(sym, num) == [chemSymbol |-> sym, atomicNumber |-> num]
Uninitialised == "uninitialised"

\* a UnionStack pointer that is NULL
NullStack == [null |-> TRUE]
IsNullStack(s) == DOMAIN s = {"null"}

\* the nodes linked under a stack pointer
NodesLeft(s) == IF IsNullStack(s) THEN 0 ELSE Len(s.top)
NoGame == [square |-> <<>>, size |-> 0, i |-> 0, j |-> 0, val |-> 0]
NoFile == "no file"

initUnionStack == [top |-> <<>>, size |-> 0]

isEmptyUnion(s) == s.top = <<>>

\* variant: the node is linked in and the size is left as it was
pushCharUnionNoCount(s, c) ==
    [top |-> <<[data |-> c, dataType |-> "CHAR_TYPE"]>> \o s.top,
     size |-> s.size]

pushCharUnion(s, c) ==
    [top |-> <<[data |-> c, dataType |-> "CHAR_TYPE"]>> \o s.top,
     size |-> s.size + 1]

\* variant: the node is linked in under the last node
pushElementUnionAtBottom(s, element) ==
    [top |-> s.top \o <<[data |-> element, dataType |-> "ELEMENT_TYPE"]>>,
     size |-> s.size + 1]

pushElementUnion(s, element) ==
    [top |-> <<[data |-> element, dataType |-> "ELEMENT_TYPE"]>> \o s.top,
     size |-> s.size + 1]

\* variant: the outputs are written before the stack is tested
popUnionClobber(s, returnValue, returnType) ==
    IF s.top = <<>>
    THEN [rc |-> EXIT_FAILURE, stack |-> s,
          returnValue |-> Uninitialised, returnType |-> Uninitialised]
    ELSE [rc |-> EXIT_SUCCESS,
          stack |-> [top  |-> IF s.size - 1 = 0 THEN <<>> ELSE Tail(s.top),
                     size |-> s.size - 1],
          returnValue |-> Head(s.top).data,
          returnType  |-> Head(s.top).dataType]

\* popUnion(stack, &returnValue, &returnType): the result carries the stack
\* and the caller's two output variables as the call leaves them
popUnion(s, returnValue, returnType) ==
    IF s.top = <<>>
    THEN [rc |-> EXIT_FAILURE, stack |-> s,
          returnValue |-> returnValue, returnType |-> returnType]
    ELSE [rc |-> EXIT_SUCCESS,
          stack |-> [top  |-> IF s.size - 1 = 0 THEN <<>> ELSE Tail(s.top),
                     size |-> s.size - 1],
          returnValue |-> Head(s.top).data,
          returnType  |-> Head(s.top).dataType]

(***************************************************************************)
(* processFormula, the scan (formulaExpander.c:57-130).  A scan state is   *)
(* the record of the locals p, stack, poppedData, poppedType, together     *)
(* with the record of popUnion's empty-stack diagnostics.                  *)
(***************************************************************************)
ScanState(pp, st, pd, pt, ep) ==
    [p |-> pp, stack |-> st, poppedData |-> pd, poppedType |-> pt, emptyPop |-> ep]

NoEmptyPop == [digit |-> FALSE, group |-> FALSE]

InitScan == ScanState(1, initUnionStack, Uninitialised, Uninitialised, NoEmptyPop)

\* variant: the two-letter case is tested before the three-letter case
ExpanderSymbolTwoFirst(f, i) ==
    IF isupper(CharAt(f, i)) /\ islower(CharAt(f, i + 1))
    THEN <<f[i], f[i + 1]>>
    ELSE IF isupper(CharAt(f, i)) /\ islower(CharAt(f, i + 1)) /\ islower(CharAt(f, i + 2))
    THEN <<f[i], f[i + 1], f[i + 2]>>
    ELSE <<f[i]>>

\* the symbol read at an alphabetic *p and the number of characters it takes
ExpanderSymbol(f, i) ==
    IF isupper(CharAt(f, i)) /\ islower(CharAt(f, i + 1)) /\ islower(CharAt(f, i + 2))
    THEN <<f[i], f[i + 1], f[i + 2]>>
    ELSE IF isupper(CharAt(f, i)) /\ islower(CharAt(f, i + 1))
    THEN <<f[i], f[i + 1]>>
    ELSE <<f[i]>>

AlphaStep(f, s) ==
    LET sym == ExpanderSymbol(f, s.p)
    IN  [s EXCEPT !.stack = pushElementUnion(s.stack, Element(sym, 1)),
                  !.p = s.p + Len(sym)]

\* while (isdigit(*p)) { m = m * 10 + (*p - '0'); p++; }
RECURSIVE ReadMultiplier(_, _, _)
ReadMultiplier(f, i, m) ==
    IF isdigit(CharAt(f, i))
    THEN ReadMultiplier(f, i + 1, (m * 10) + DigitValue(f[i]))
    ELSE [value |-> m, p |-> i]

\* variant: the body of the loop runs once before the count is tested
RECURSIVE PushCopiesDoWhile(_, _, _)
PushCopiesDoWhile(st, element, n) ==
    IF n <= 1 THEN pushElementUnion(st, element)
    ELSE PushCopiesDoWhile(pushElementUnion(st, element), element, n - 1)

\* for (i = 0; i < n; i++) pushElementUnion(stack, element);
RECURSIVE PushCopies(_, _, _)
PushCopies(st, element, n) ==
    IF n <= 0 THEN st
    ELSE PushCopies(pushElementUnion(st, element), element, n - 1)

DigitStep(f, s) ==
    LET m == ReadMultiplier(f, s.p, 0)
        r == popUnion(s.stack, s.poppedData, s.poppedType)
    IN  ScanState(m.p,
                  IF r.rc = EXIT_SUCCESS /\ r.returnType = "ELEMENT_TYPE"
                  THEN PushCopies(r.stack, r.returnValue, m.value)
                  ELSE r.stack,
                  r.returnValue, r.returnType,
                  [s.emptyPop EXCEPT !.digit = @ \/ (r.rc = EXIT_FAILURE)])

GroupMarker == Element(<<"(">>, 0)

OpenStep(f, s) ==
    [s EXCEPT !.stack = pushElementUnion(s.stack, GroupMarker), !.p = s.p + 1]

\* variant: the loop stops at the group marker without taking it off
RECURSIVE PopGroupKeepMarker(_, _)
PopGroupKeepMarker(s, tempArray) ==
    LET r == popUnion(s.stack, s.poppedData, s.poppedType)
        t == ScanState(s.p, r.stack, r.returnValue, r.returnType,
                       [s.emptyPop EXCEPT !.group = @ \/ (r.rc = EXIT_FAILURE)])
    IN  IF r.rc = EXIT_SUCCESS /\ r.returnType = "ELEMENT_TYPE"
           /\ r.returnValue.chemSymbol # <<"(">>
        THEN PopGroupKeepMarker(t, Append(tempArray, r.returnValue))
        ELSE [state |-> IF r.rc = EXIT_SUCCESS THEN [t EXCEPT !.stack = s.stack] ELSE t,
              tempArray |-> tempArray]

\* while (popUnion(..) == EXIT_SUCCESS && poppedType == ELEMENT_TYPE
\*        && strcmp(symbol, "(") != 0) tempArray[tempIndex++] = element;
RECURSIVE PopGroup(_, _)
PopGroup(s, tempArray) ==
    LET r == popUnion(s.stack, s.poppedData, s.poppedType)
        t == ScanState(s.p, r.stack, r.returnValue, r.returnType,
                       [s.emptyPop EXCEPT !.group = @ \/ (r.rc = EXIT_FAILURE)])
    IN  IF r.rc = EXIT_SUCCESS /\ r.returnType = "ELEMENT_TYPE"
           /\ r.returnValue.chemSymbol # <<"(">>
        THEN PopGroup(t, Append(tempArray, r.returnValue))
        ELSE [state |-> t, tempArray |-> tempArray]

\* variant: the group is pushed back in the order it was popped
RECURSIVE PushGroupForward(_, _, _)
PushGroupForward(st, tempArray, j) ==
    IF j < 1 THEN st
    ELSE PushGroupForward(pushElementUnion(st, tempArray[Len(tempArray) - j + 1]),
                          tempArray, j - 1)

\* for (j = tempIndex - 1; j >= 0; j--) pushElementUnion(stack, tempArray[j]);
RECURSIVE PushGroup(_, _, _)
PushGroup(st, tempArray, j) ==
    IF j < 1 THEN st
    ELSE PushGroup(pushElementUnion(st, tempArray[j]), tempArray, j - 1)

\* variant: the group multiplier is ignored
ReplayGroupOnce(st, tempArray, n) == PushGroup(st, tempArray, Len(tempArray))

\* for (i = 0; i < groupMultiplier; i++) <push the group>
RECURSIVE ReplayGroup(_, _, _)
ReplayGroup(st, tempArray, n) ==
    IF n <= 0 THEN st
    ELSE ReplayGroup(PushGroup(st, tempArray, Len(tempArray)), tempArray, n - 1)

CloseStep(f, s) ==
    LET g == PopGroup(s, <<>>)
        m == IF isdigit(CharAt(f, s.p + 1))
             THEN ReadMultiplier(f, s.p + 1, 0)
             ELSE [value |-> 1, p |-> s.p + 1]
    IN  [g.state EXCEPT !.stack = ReplayGroup(g.state.stack, g.tempArray, m.value),
                        !.p = m.p]

OtherStep(f, s) == [s EXCEPT !.p = s.p + 1]

ScanStep(f, s) ==
    LET c == CharAt(f, s.p)
    IN  IF isalpha(c) THEN AlphaStep(f, s)
        ELSE IF isdigit(c) THEN DigitStep(f, s)
        ELSE IF c = "(" THEN OpenStep(f, s)
        ELSE IF c = ")" THEN CloseStep(f, s)
        ELSE OtherStep(f, s)

RECURSIVE ScanLoop(_, _)
ScanLoop(f, s) ==
    IF CharAt(f, s.p) = NUL THEN s ELSE ScanLoop(f, ScanStep(f, s))

\* what popUnion prints with perror in the step at s.p: the pop at a digit
\* finds the stack empty, or the pops at ')' reach the bottom of the stack
\* without meeting an entry that ends the loop
ScanPerror(f, s) ==
    LET c == CharAt(f, s.p)
        top == s.stack.top
        failed == IF isdigit(c) THEN top = <<>>
                  ELSE IF c = ")"
                  THEN \A k \in 1..Len(top) :
                          /\ top[k].dataType = "ELEMENT_TYPE"
                          /\ top[k].data.chemSymbol # <<"(">>
                  ELSE FALSE
    IN  IF failed THEN <<"Can't pop from empty/null union stack.">> ELSE <<>>

\* the diagnostics of the whole scan, in the order they are printed
RECURSIVE ScanLoopPerror(_, _)
ScanLoopPerror(f, s) ==
    IF CharAt(f, s.p) = NUL THEN <<>>
    ELSE ScanPerror(f, s) \o ScanLoopPerror(f, ScanStep(f, s))

(***************************************************************************)
(* processFormula, the output (formulaExpander.c:132-172).                 *)
(***************************************************************************)
\* while (!isEmptyUnion(stack)) { pop from stack, push on tempStack }
RECURSIVE DrainInto(_, _)
DrainInto(st, temp) ==
    IF isEmptyUnion(st) THEN temp
    ELSE LET r == popUnion(st, Uninitialised, Uninitialised)
         IN  DrainInto(r.stack,
                       IF r.rc = EXIT_SUCCESS /\ r.returnType = "ELEMENT_TYPE"
                       THEN pushElementUnion(temp, r.returnValue)
                       ELSE temp)

Double(n) == n * 2

\* variant: the symbols are appended without the space after each
RECURSIVE AppendTokensNoSpace(_, _)
AppendTokensNoSpace(temp, out) ==
    IF isEmptyUnion(temp) THEN out
    ELSE LET r == popUnion(temp, Uninitialised, Uninitialised)
         IN  IF r.rc = EXIT_SUCCESS /\ r.returnType = "ELEMENT_TYPE"
             THEN LET sym == r.returnValue.chemSymbol
                      symbolLen == Len(sym)
                      size == IF out.length + symbolLen + 2 >= out.bufferSize
                              THEN Double(out.bufferSize) ELSE out.bufferSize
                  IN  AppendTokensNoSpace(r.stack,
                          [text |-> SubSeq(out.text, 1, out.length) \o sym,
                           length |-> out.length + symbolLen,
                           bufferSize |-> size])
             ELSE AppendTokensNoSpace(r.stack, out)

\* while (!isEmptyUnion(temp)) { pop, grow the buffer, append "sym " }
RECURSIVE AppendTokens(_, _)
AppendTokens(temp, out) ==
    IF isEmptyUnion(temp) THEN out
    ELSE LET r == popUnion(temp, Uninitialised, Uninitialised)
         IN  IF r.rc = EXIT_SUCCESS /\ r.returnType = "ELEMENT_TYPE"
             THEN LET sym == r.returnValue.chemSymbol
                      symbolLen == Len(sym)
                      size == IF out.length + symbolLen + 2 >= out.bufferSize
                              THEN Double(out.bufferSize) ELSE out.bufferSize
                  IN  AppendTokens(r.stack,
                          [text |-> SubSeq(out.text, 1, out.length) \o sym \o <<" ">>,
                           length |-> out.length + symbolLen + 1,
                           bufferSize |-> size])
             ELSE AppendTokens(r.stack, out)

\* if (length > 0 && expandedFormula[length - 1] == ' ') length--;
\* expandedFormula[length] = '\0';
TrimOutput(out) ==
    LET n == IF out.length > 0 /\ out.text[out.length] = " "
             THEN out.length - 1 ELSE out.length
    IN  [text |-> SubSeq(out.text, 1, n), length |-> n, bufferSize |-> out.bufferSize]

EmptyOutput == [text |-> <<>>, length |-> 0, bufferSize |-> 256]

\* variant: the string is built straight from the main stack
MaterialiseUnreversed(st) == TrimOutput(AppendTokens(st, EmptyOutput))

Materialise(st) ==
    TrimOutput(AppendTokens(DrainInto(st, initUnionStack), EmptyOutput))

processFormula(f) == Materialise(ScanLoop(f, InitScan).stack).text

(***************************************************************************)
(* checkParentheses (formulaExpander.c:281-320).  A check state is the     *)
(* record of the locals p, stack and valid.                                *)
(***************************************************************************)
CheckState(pp, st, v) == [p |-> pp, stack |-> st, valid |-> v]

InitCheckState == CheckState(1, initUnionStack, TRUE)

CheckOpenStep(f, s) ==
    [s EXCEPT !.stack = pushCharUnion(s.stack, f[s.p]), !.p = s.p + 1]

CheckCloseStep(f, s) ==
    IF ~isEmptyUnion(s.stack)
    THEN LET r == popUnion(s.stack, Uninitialised, Uninitialised)
         IN  CheckState(s.p + 1, r.stack,
                        IF r.returnType # "CHAR_TYPE" \/ r.returnValue # "("
                        THEN FALSE ELSE s.valid)
    ELSE CheckState(s.p + 1, s.stack, FALSE)

CheckSkipStep(f, s) == [s EXCEPT !.p = s.p + 1]

CheckStep(f, s) ==
    IF CharAt(f, s.p) = "(" THEN CheckOpenStep(f, s)
    ELSE IF CharAt(f, s.p) = ")" THEN CheckCloseStep(f, s)
    ELSE CheckSkipStep(f, s)

\* while (*p != '\0' && valid)
CheckRunning(f, s) == CharAt(f, s.p) # NUL /\ s.valid

RECURSIVE CheckLoop(_, _)
CheckLoop(f, s) == IF CheckRunning(f, s) THEN CheckLoop(f, CheckStep(f, s)) ELSE s

\* while (!isEmptyUnion(stack)) popUnion(stack, &tempData, &tempType);
RECURSIVE ClearStack(_)
ClearStack(st) ==
    IF isEmptyUnion(st) THEN st
    ELSE ClearStack(popUnion(st, Uninitialised, Uninitialised).stack)

\* variant: opening parentheses left on the stack are not looked at
CheckVerdictNoLeftover(s) == s.valid

\* if (valid && !isEmptyUnion(stack)) valid = false;
CheckVerdict(s) == IF s.valid /\ ~isEmptyUnion(s.stack) THEN FALSE ELSE s.valid

checkParentheses(f) == CheckVerdict(CheckLoop(f, InitCheckState))

\* The verdict of checkParentheses without running the loop character by
\* character, for lines of any length.  Only '(' is pushed, so a pop always
\* gives a '(' and the stack holds as many entries as there are '(' not yet
\* closed: the loop sets valid to false and stops at the first ')' met with
\* the stack empty, and otherwise the verdict is that of the stack left at
\* the terminator
checkParenthesesAtOnce(f) ==
    LET opened(k) == Cardinality({m \in 1..k : f[m] = "("})
        closed(k) == Cardinality({m \in 1..k : f[m] = ")"})
        emptyAt == {k \in 1..Len(f) : f[k] = ")" /\ opened(k - 1) = closed(k - 1)}
    IN  IF emptyAt # {} THEN FALSE
        ELSE opened(Len(f)) = closed(Len(f))

(***************************************************************************)
(* periodicTable.c.  The array elements[MAX_ELEMENTS] is a sequence of     *)
(* MAX_ELEMENTS records; a table file is the sequence of its records.      *)
(***************************************************************************)
Min(a, b) == IF a <= b THEN a ELSE b

\* the records are stored from slot 0 on, the other slots keep what they held
loadPeriodicTable(file, elements) ==
    IF ~file.opens
    THEN [rc |-> EXIT_FAILURE, elements |-> elements,
          perror |-> <<"Unable to open file to read periodic table elements.">>]
    ELSE LET index == Min(Len(file.records), MAX_ELEMENTS)
         IN  [rc |-> index, perror |-> <<>>,
              elements |-> [i \in 1..MAX_ELEMENTS |->
                               IF i <= index THEN file.records[i] ELSE elements[i]]]

\* for (j = 0; j < numElements - i - 1; j++) if (e[j] > e[j+1]) swap
RECURSIVE BubblePass(_, _, _)
BubblePass(elements, j, last) ==
    IF j > last THEN elements
    ELSE BubblePass(
            IF elements[j].atomicNumber > elements[j + 1].atomicNumber
            THEN [elements EXCEPT ![j] = elements[j + 1], ![j + 1] = elements[j]]
            ELSE elements,
            j + 1, last)

\* for (i = 0; i < numElements - 1; i++) <one pass>
RECURSIVE BubbleSort(_, _, _)
BubbleSort(elements, i, n) ==
    IF i >= n - 1 THEN elements
    ELSE BubbleSort(BubblePass(elements, 1, n - i - 1), i + 1, n)

sortPeriodicTable(elements, n) == BubbleSort(elements, 0, n)

\* the first of the slots 0 .. n-1 whose symbol compares equal decides
getAtomicNumber(elements, n, symbol) ==
    LET matches == {i \in 1..n : elements[i].chemSymbol = symbol}
    IN  IF matches = {} THEN -1
        ELSE elements[CHOOSE i \in matches : \A k \in matches : i <= k].atomicNumber

(***************************************************************************)
(* Reading a text file with fgets(buffer, n, file): a file is the sequence *)
(* of its lines, every line ending in a newline; a read returns at most    *)
(* n - 1 characters and stops after a newline.                             *)
(***************************************************************************)
NewLine == "\n"

RECURSIVE fgetsLine(_, _)
fgetsLine(text, n) ==
    IF Len(text) <= n - 1 THEN <<text>>
    ELSE <<SubSeq(text, 1, n - 1)>> \o fgetsLine(SubSeq(text, n, Len(text)), n)

RECURSIVE Reads(_)
Reads(lines) ==
    IF lines = <<>> THEN <<>>
    ELSE fgetsLine(Head(lines) \o <<NewLine>>, MAX_FORMULA_LENGTH) \o Reads(Tail(lines))

\* if (formula[strlen(formula) - 1] == '\n') formula[strlen(formula) - 1] = '\0';
StripLastNewline(text) ==
    IF Len(text) > 0 /\ text[Len(text)] = NewLine
    THEN SubSeq(text, 1, Len(text) - 1) ELSE text

\* formula[strcspn(formula, "\n")] = '\0';
CutAtNewline(text) ==
    IF \E i \in 1..Len(text) : text[i] = NewLine
    THEN SubSeq(text, 1, (CHOOSE i \in 1..Len(text) :
                              /\ text[i] = NewLine
                              /\ \A k \in 1..(i - 1) : text[k] # NewLine) - 1)
    ELSE text

(***************************************************************************)
(* formulaProcessor (formulaExpander.c:177-205): the lines it leaves in    *)
(* the output file, `before` being what the file held (NoFile when it does *)
(* not exist).                                                             *)
(***************************************************************************)
formulaProcessor(input, outputOpens, before) ==
    IF ~input.opens THEN before
    ELSE IF ~outputOpens THEN before
    ELSE LET reads == Reads(input.lines)
         IN  [i \in 1..Len(reads) |-> processFormula(CutAtNewline(reads[i]))]

\* what formulaProcessor prints with perror when one of its two files does
\* not open
formulaProcessorOpenPerror(input, outputOpens) ==
    IF ~input.opens THEN <<"Unable to open input file for formula expansion.">>
    ELSE IF ~outputOpens THEN <<"Unable to open output file for writing.">>
    ELSE <<>>

\* the diagnostics of processFormula on the reads from the i-th on
RECURSIVE ReadsPerror(_, _)
ReadsPerror(reads, i) ==
    IF i > Len(reads) THEN <<>>
    ELSE ScanLoopPerror(CutAtNewline(reads[i]), InitScan) \o ReadsPerror(reads, i + 1)

\* everything a call of formulaProcessor prints with perror
formulaProcessorPerror(input, outputOpens) ==
    IF input.opens /\ outputOpens
    THEN ReadsPerror(Reads(input.lines), 1)
    ELSE formulaProcessorOpenPerror(input, outputOpens)

(***************************************************************************)
(* countProtons (formulaExpander.c:209-266).  A count state is the record  *)
(* of the locals p and totalAtomicNumber of the loop over one line.        *)
(***************************************************************************)
CountState(pp, total) == [p |-> pp, totalAtomicNumber |-> total]

CounterSymbol(f, i) ==
    IF isupper(CharAt(f, i)) /\ islower(CharAt(f, i + 1)) /\ islower(CharAt(f, i + 2))
    THEN <<f[i], f[i + 1], f[i + 2]>>
    ELSE IF isupper(CharAt(f, i)) /\ islower(CharAt(f, i + 1))
    THEN <<f[i], f[i + 1]>>
    ELSE <<f[i]>>

\* variant: the looked-up number replaces the total
ProtonAlphaStepOverwrite(f, s, table) ==
    LET sym == CounterSymbol(f, s.p)
    IN  CountState(s.p + Len(sym), getAtomicNumber(table, MAX_ELEMENTS, sym))

ProtonAlphaStep(f, s, table) ==
    LET sym == CounterSymbol(f, s.p)
        atomicNumber == getAtomicNumber(table, MAX_ELEMENTS, sym)
    IN  CountState(s.p + Len(sym), s.totalAtomicNumber + atomicNumber)

ProtonSkipStep(f, s) == [s EXCEPT !.p = s.p + 1]

RECURSIVE ProtonLoop(_, _, _)
ProtonLoop(f, s, table) ==
    IF CharAt(f, s.p) = NUL THEN s
    ELSE IF isalpha(CharAt(f, s.p)) THEN ProtonLoop(f, ProtonAlphaStep(f, s, table), table)
    ELSE ProtonLoop(f, ProtonSkipStep(f, s), table)

\* the symbols the loop hands to getAtomicNumber, in order, from cursor i on:
\* the characters that are not letters are stepped over one by one
RECURSIVE LookedUp(_, _)
LookedUp(f, i) ==
    LET letters == {k \in i..Len(f) : isalpha(f[k])}
    IN  IF letters = {} THEN <<>>
        ELSE LET k == CHOOSE m \in letters : \A n \in letters : m <= n
                 sym == CounterSymbol(f, k)
             IN  <<sym>> \o LookedUp(f, k + Len(sym))

\* the integer printed for one line read from expanded.txt
CountLine(line, table) == ProtonLoop(line, CountState(1, 0), table).totalAtomicNumber

\* what the call leaves behind: whether it ended the program with
\* exit(EXIT_FAILURE), which functions ran, and the two files
countProtons(input, outputOpens, tempOpens, table, outBefore, tempBefore) ==
    IF ~tempOpens
    THEN [exited |-> TRUE, invoked |-> {"countProtons"},
          expandedFile |-> tempBefore, outputFile |-> outBefore,
          perror |-> <<"Unable to create file to store expanded formulas">>]
    ELSE LET expanded == formulaProcessor(input, tempOpens, <<>>)
             reads == Reads(expanded)
             printed == formulaProcessorPerror(input, tempOpens)
         IN  IF ~outputOpens
             THEN [exited |-> TRUE, invoked |-> {"countProtons", "formulaProcessor"},
                   expandedFile |-> expanded, outputFile |-> outBefore,
                   perror |-> Append(printed,
                                "Unable to open output file for count protons.")]
             ELSE [exited |-> FALSE, invoked |-> {"countProtons", "formulaProcessor"},
                   expandedFile |-> expanded, perror |-> printed,
                   outputFile |-> [i \in 1..Len(reads) |-> CountLine(reads[i], table)]]

(***************************************************************************)
(* validateParentheses (formulaExpander.c:324-351).                        *)
(***************************************************************************)
\* a C int returned from a function whose return type is bool
BoolOf(n) == n # 0

\* variant: the verdict of the last line replaces the verdict so far
ValidateVerdictLastLine(overall, lineValid) == lineValid

\* if (!valid) overallValid = false;
ValidateVerdict(overall, lineValid) == IF ~lineValid THEN FALSE ELSE overall

\* variant: the line number is printed counting from 0
MessageZeroBased(text, number) == [text |-> text, number |-> number - 1]

\* printf of a message, with the line number where the format has a %d
Message(text, number) == [text |-> text, number |-> number]

(***************************************************************************)
(* The inputs of the model.                                                *)
(***************************************************************************)
FormulaChars == {"H", "g", "2", "0", "(", ")"}

\* no multiplier written in the formula is larger than MaxMultiplier
MultipliersBounded(f) ==
    \A i \in 1..Len(f) :
        (isdigit(f[i]) /\ ~isdigit(CharAt(f, i - 1)))
            => ReadMultiplier(f, i, 0).value <= MaxMultiplier

SeedFormulas ==
    { <<"M","g","(","O","H",")","2">>,
      <<"C","a","(","O","H",")","2">>,
      <<"H","2","O">>,
      <<"H","2","(","O">>,
      <<")","(">>,
      <<"H","+","O","H">>,
      <<"(","(","O","H",")","2","H",")","2">>,
      <<"U","u","e","2">>,
      <<"H","1","2">>,
      <<"(","H",")","1","0">> }

Formulas ==
    { f \in UNION { [1..n -> FormulaChars] : n \in 0..MaxLen } : MultipliersBounded(f) }
    \cup SeedFormulas

(***************************************************************************)
(* Spec: one call of processFormula on an arbitrary formula.               *)
(***************************************************************************)
Scan == ScanState(p, stack, poppedData, poppedType, emptyPop)

SetScan(s) ==
    /\ p' = s.p
    /\ stack' = s.stack
    /\ poppedData' = s.poppedData
    /\ poppedType' = s.poppedType
    /\ emptyPop' = s.emptyPop

\* no function has started: the locals of every function at their first values
LocalsAtStart ==
    /\ p = 1
    /\ stack = initUnionStack
    /\ poppedData = Uninitialised
    /\ poppedType = Uninitialised
    /\ emptyPop = NoEmptyPop
    /\ tempIndex = 0
    /\ expandedFormula = <<>>
    /\ length = 0
    /\ bufferSize = 256
    /\ tempStack = NullStack
    /\ stderr = <<>>
    /\ valid = TRUE
    /\ totalAtomicNumber = 0

\* the program around the function is not part of the run
NoProgram ==
    /\ args = [argc |-> 0, option |-> ""]
    /\ game = NoGame
    /\ files = NoFile
    /\ lineIndex = 0
    /\ overallValid = TRUE
    /\ returned = Uninitialised
    /\ stdout = <<>>
    /\ exitStatus = Uninitialised
    /\ invoked = {}
    /\ outputFile = NoFile
    /\ expandedFile = NoFile

NoTable ==
    /\ periodicTable = <<>>
    /\ numElements = 0

Init ==
    /\ formula \in Formulas
    /\ LocalsAtStart
    /\ NoProgram
    /\ NoTable
    /\ pc = "scan"

ScanAlpha ==
    /\ pc = "scan"
    /\ isalpha(CharAt(formula, p))
    /\ SetScan(AlphaStep(formula, Scan))
    /\ tempIndex' = tempIndex
    /\ stderr' = stderr \o ScanPerror(formula, Scan)
    /\ UNCHANGED <<formula, expandedFormula, length, bufferSize, tempStack, valid,
                   pc, tableVars, mainVars, totalAtomicNumber>>

ScanDigit ==
    /\ pc = "scan"
    /\ isdigit(CharAt(formula, p))
    /\ SetScan(DigitStep(formula, Scan))
    /\ tempIndex' = tempIndex
    /\ stderr' = stderr \o ScanPerror(formula, Scan)
    /\ UNCHANGED <<formula, expandedFormula, length, bufferSize, tempStack, valid,
                   pc, tableVars, mainVars, totalAtomicNumber>>

ScanOpen ==
    /\ pc = "scan"
    /\ CharAt(formula, p) = "("
    /\ SetScan(OpenStep(formula, Scan))
    /\ tempIndex' = tempIndex
    /\ stderr' = stderr \o ScanPerror(formula, Scan)
    /\ UNCHANGED <<formula, expandedFormula, length, bufferSize, tempStack, valid,
                   pc, tableVars, mainVars, totalAtomicNumber>>

ScanClose ==
    /\ pc = "scan"
    /\ CharAt(formula, p) = ")"
    /\ SetScan(CloseStep(formula, Scan))
    /\ tempIndex' = Len(PopGroup(Scan, <<>>).tempArray)
    /\ stderr' = stderr \o ScanPerror(formula, Scan)
    /\ UNCHANGED <<formula, expandedFormula, length, bufferSize, tempStack, valid,
                   pc, tableVars, mainVars, totalAtomicNumber>>

ScanOther ==
    /\ pc = "scan"
    /\ CharAt(formula, p) # NUL
    /\ ~isalpha(CharAt(formula, p))
    /\ ~isdigit(CharAt(formula, p))
    /\ CharAt(formula, p) \notin {"(", ")"}
    /\ SetScan(OtherStep(formula, Scan))
    /\ tempIndex' = tempIndex
    /\ stderr' = stderr \o ScanPerror(formula, Scan)
    /\ UNCHANGED <<formula, expandedFormula, length, bufferSize, tempStack, valid,
                   pc, tableVars, mainVars, totalAtomicNumber>>

\* the scan has reached the terminator: reverse the stack, build the string,
\* free both stacks and return
Output ==
    /\ pc = "scan"
    /\ CharAt(formula, p) = NUL
    /\ LET out == Materialise(stack)
       IN  /\ expandedFormula' = out.text
           /\ length' = out.length
           /\ bufferSize' = out.bufferSize
    \* both loops pop into poppedData and poppedType: they are left holding
    \* the last entry popped from tempStack, or from the stack when tempStack
    \* received nothing
    /\ LET temp == DrainInto(stack, initUnionStack)
           last == IF ~isEmptyUnion(temp) THEN temp.top[Len(temp.top)]
                   ELSE stack.top[Len(stack.top)]
       IN  IF isEmptyUnion(stack)
           THEN UNCHANGED <<poppedData, poppedType>>
           ELSE /\ poppedData' = last.data
                /\ poppedType' = last.dataType
    /\ stack' = initUnionStack
    /\ tempStack' = initUnionStack
    /\ stderr' = stderr
    /\ pc' = "returned"
    /\ UNCHANGED <<formula, p, emptyPop, tempIndex, valid,
                   tableVars, mainVars, totalAtomicNumber>>

Next ==
    \/ ScanAlpha
    \/ ScanDigit
    \/ ScanOpen
    \/ ScanClose
    \/ ScanOther
    \/ Output

Spec == Init /\ [][Next]_vars

(***************************************************************************)
(* SpecCheck: one call of checkParentheses on an arbitrary formula.        *)
(***************************************************************************)
Check == CheckState(p, stack, valid)

SetCheck(s) ==
    /\ p' = s.p
    /\ stack' = s.stack
    /\ valid' = s.valid

InitCheck ==
    /\ formula \in Formulas
    /\ LocalsAtStart
    /\ NoProgram
    /\ NoTable
    /\ pc = "check"

CheckOpen ==
    /\ pc = "check"
    /\ CheckRunning(formula, Check)
    /\ CharAt(formula, p) = "("
    /\ SetCheck(CheckOpenStep(formula, Check))
    /\ UNCHANGED <<formula, poppedData, poppedType, emptyPop, tempIndex, outVars, pc,
                   tableVars, mainVars, totalAtomicNumber>>

CheckClose ==
    /\ pc = "check"
    /\ CheckRunning(formula, Check)
    /\ CharAt(formula, p) = ")"
    /\ SetCheck(CheckCloseStep(formula, Check))
    /\ UNCHANGED <<formula, poppedData, poppedType, emptyPop, tempIndex, outVars, pc,
                   tableVars, mainVars, totalAtomicNumber>>

CheckSkip ==
    /\ pc = "check"
    /\ CheckRunning(formula, Check)
    /\ CharAt(formula, p) \notin {"(", ")"}
    /\ SetCheck(CheckSkipStep(formula, Check))
    /\ UNCHANGED <<formula, poppedData, poppedType, emptyPop, tempIndex, outVars, pc,
                   tableVars, mainVars, totalAtomicNumber>>

\* the loop has ended: settle the verdict, clear and free the stack, return
CheckReturn ==
    /\ pc = "check"
    /\ ~CheckRunning(formula, Check)
    /\ valid' = CheckVerdict(Check)
    /\ stack' = ClearStack(stack)
    /\ pc' = "checked"
    /\ UNCHANGED <<formula, p, poppedData, poppedType, emptyPop, tempIndex, outVars,
                   tableVars, mainVars, totalAtomicNumber>>

NextCheck ==
    \/ CheckOpen
    \/ CheckClose
    \/ CheckSkip
    \/ CheckReturn

SpecCheck == InitCheck /\ [][NextCheck]_vars

(***************************************************************************)
(* SpecMain: one run of parseFormula (parseFormula.c:33-110).              *)
(***************************************************************************)
MaxLines == 2

Hydrogen == Element(<<"H">>, 1)
Oxygen == Element(<<"O">>, 8)
Magnesium == Element(<<"M","g">>, 12)

TableRecords ==
    { <<>>,
      <<Hydrogen>>,
      <<Magnesium, Hydrogen, Oxygen>>,
      <<Hydrogen, Oxygen, Magnesium, Element(<<"X">>, 5)>> }

\* what the slots of the array may hold before anything is stored in them
GarbageElements == { Element(<<>>, 0), Element(<<"X">>, 7) }

MainLines ==
    { <<"H","2","O">>, <<"H","2","(","O">>, <<"M","g","(","O","H",")","2">> }

InputFiles ==
    [opens : BOOLEAN,
     lines : UNION { [1..n -> MainLines] : n \in 0..MaxLines }]

\* a balanced line of MAX_FORMULA_LENGTH + 1 characters: fgets hands it over
\* in two reads, the first of MAX_FORMULA_LENGTH - 1 characters
LongLine ==
    <<"(">> \o [k \in 1..(MAX_FORMULA_LENGTH - 1) |-> "H"] \o <<")">>

\* the files of a run: every combination of the small files, and the file of
\* the one long line with a table and output files that open
MainFiles ==
    [table : [opens : BOOLEAN, records : TableRecords],
     input : InputFiles,
     outputOpens : BOOLEAN,
     tempOpens : BOOLEAN]
    \cup [table : {[opens |-> TRUE, records |-> <<Magnesium, Hydrogen, Oxygen>>]},
          input : {[opens |-> TRUE, lines |-> <<LongLine>>]},
          outputOpens : {TRUE},
          tempOpens : {TRUE}]

LocalsUnchanged ==
    UNCHANGED <<p, stack, poppedData, poppedType, emptyPop, tempIndex,
                expandedFormula, length, bufferSize, tempStack, totalAtomicNumber>>

Exit(status) ==
    /\ exitStatus' = status
    /\ pc' = "exited"

InitMain ==
    /\ formula = <<>>
    /\ LocalsAtStart
    /\ args \in [argc : 3..5, option : {"-v", "-ext", "-pn", "-x"}]
    /\ game = NoGame
    /\ files \in MainFiles
    /\ \E g \in GarbageElements : periodicTable = [i \in 1..MAX_ELEMENTS |-> g]
    /\ numElements = Uninitialised
    /\ lineIndex = 0
    /\ overallValid = TRUE
    /\ returned = Uninitialised
    /\ stdout = <<>>
    /\ exitStatus = Uninitialised
    /\ invoked = {}
    /\ outputFile = NoFile
    /\ expandedFile = NoFile
    /\ pc = "main"

\* if (argc != 4 && argc != 5) { usage; return 1; }
MainUsage ==
    /\ pc = "main"
    /\ args.argc # 4 /\ args.argc # 5
    /\ stdout' = Append(stdout, Message("Usage:", 0))
    /\ Exit(1)
    /\ UNCHANGED <<formula, valid, args, files, game, tableVars, lineIndex, overallValid,
                   returned, invoked, outputFile, expandedFile>>
    /\ UNCHANGED stderr
    /\ LocalsUnchanged

\* loadPeriodicTable, the test of its result, sortPeriodicTable
MainLoadTable ==
    /\ pc = "main"
    /\ ~(args.argc # 4 /\ args.argc # 5)
    /\ LET r == loadPeriodicTable(files.table, periodicTable)
       IN  /\ numElements' = r.rc
           /\ stderr' = stderr \o r.perror
           /\ IF r.rc = EXIT_FAILURE
              THEN /\ periodicTable' = r.elements
                   /\ stdout' = Append(stdout, Message("Failed to load periodic table.", 0))
                   /\ Exit(1)
              ELSE /\ periodicTable' = sortPeriodicTable(r.elements, r.rc)
                   /\ stdout' = stdout
                   /\ pc' = "option"
                   /\ UNCHANGED exitStatus
    /\ UNCHANGED <<formula, valid, args, files, game, lineIndex, overallValid,
                   returned, invoked, outputFile, expandedFile>>
    /\ LocalsUnchanged

\* the strcmp chain on argv[2] and the argc test of the chosen mode
MainOption ==
    /\ pc = "option"
    /\ IF args.option = "-v" /\ args.argc = 4
       THEN /\ stdout' = Append(stdout, Message("Verify balanced parentheses in", 0))
            /\ pc' = "validate"
            /\ UNCHANGED exitStatus
       ELSE IF args.option \in {"-ext", "-pn"} /\ args.argc = 5
       THEN /\ pc' = "validate"
            /\ UNCHANGED <<stdout, exitStatus>>
       ELSE /\ stdout' = Append(stdout, Message("Usage:", 0))
            /\ Exit(1)
    /\ UNCHANGED <<formula, valid, args, files, game, tableVars, lineIndex, overallValid,
                   returned, invoked, outputFile, expandedFile>>
    /\ UNCHANGED stderr
    /\ LocalsUnchanged

\* validateParentheses: fopen, and the return when it fails
ValidateOpen ==
    /\ pc = "validate"
    /\ IF ~files.input.opens
       THEN /\ returned' = BoolOf(EXIT_FAILURE)
            /\ stderr' = Append(stderr, "Error opening file for parentheses validation.")
            /\ pc' = "validated"
       ELSE /\ pc' = "validate_loop"
            /\ UNCHANGED <<returned, stderr>>
    /\ lineIndex' = 0
    /\ overallValid' = TRUE
    /\ UNCHANGED <<formula, valid, args, files, game, tableVars, stdout, exitStatus,
                   invoked, outputFile, expandedFile>>
    /\ LocalsUnchanged

\* validateParentheses: one iteration of the fgets loop
ValidateLine ==
    /\ pc = "validate_loop"
    /\ lineIndex < Len(Reads(files.input.lines))
    /\ lineIndex' = lineIndex + 1
    /\ formula' = StripLastNewline(Reads(files.input.lines)[lineIndex'])
    /\ valid' = checkParenthesesAtOnce(formula')
    /\ overallValid' = ValidateVerdict(overallValid, valid')
    /\ stdout' = IF ~valid'
                 THEN Append(stdout, Message("Parentheses NOT balanced in line:", lineIndex'))
                 ELSE stdout
    /\ UNCHANGED <<pc, args, files, game, tableVars, returned, exitStatus,
                   invoked, outputFile, expandedFile>>
    /\ UNCHANGED stderr
    /\ LocalsUnchanged

\* validateParentheses: end of file, fclose, return overallValid
ValidateReturn ==
    /\ pc = "validate_loop"
    /\ lineIndex = Len(Reads(files.input.lines))
    /\ returned' = overallValid
    /\ pc' = "validated"
    /\ UNCHANGED <<formula, valid, args, files, game, tableVars, lineIndex, overallValid,
                   stdout, exitStatus, invoked, outputFile, expandedFile>>
    /\ UNCHANGED stderr
    /\ LocalsUnchanged

\* -v: report and return 0
MainVerify ==
    /\ pc = "validated"
    /\ args.option = "-v"
    /\ stdout' = IF returned
                 THEN Append(stdout,
                        Message("Parentheses are balanced for all chemical formulas.", 0))
                 ELSE stdout
    /\ Exit(0)
    /\ UNCHANGED <<formula, valid, args, files, game, tableVars, lineIndex, overallValid,
                   returned, invoked, outputFile, expandedFile>>
    /\ UNCHANGED stderr
    /\ LocalsUnchanged

\* -ext and -pn: if (!validateParentheses(inputFile)) { message; return 1; }
MainRefuse ==
    /\ pc = "validated"
    /\ args.option \in {"-ext", "-pn"}
    /\ ~returned
    /\ stdout' = Append(stdout, Message("Imbalanced parentheses in file", 0))
    /\ Exit(1)
    /\ UNCHANGED <<formula, valid, args, files, game, tableVars, lineIndex, overallValid,
                   returned, invoked, outputFile, expandedFile>>
    /\ UNCHANGED stderr
    /\ LocalsUnchanged

\* -ext: formulaProcessor(inputFile, outputFile); return 0
MainExpand ==
    /\ pc = "validated"
    /\ args.option = "-ext"
    /\ returned
    /\ invoked' = invoked \cup {"formulaProcessor"}
    /\ outputFile' = formulaProcessor(files.input, files.outputOpens, outputFile)
    /\ stderr' = stderr \o formulaProcessorPerror(files.input, files.outputOpens)
    /\ stdout' = stdout \o <<Message("Compute extended version of formulas in", 0),
                             Message("Writing formulas to", 0)>>
    /\ Exit(0)
    /\ UNCHANGED <<formula, valid, args, files, game, tableVars, lineIndex, overallValid,
                   returned, expandedFile>>
    /\ LocalsUnchanged

\* -pn: countProtons(inputFile, outputFile, periodicTable); return 0
MainCount ==
    /\ pc = "validated"
    /\ args.option = "-pn"
    /\ returned
    /\ LET r == countProtons(files.input, files.outputOpens, files.tempOpens,
                             periodicTable, outputFile, expandedFile)
       IN  /\ invoked' = invoked \cup r.invoked
           /\ stderr' = stderr \o r.perror
           /\ outputFile' = r.outputFile
           /\ expandedFile' = r.expandedFile
           /\ IF r.exited
              THEN /\ stdout' = Append(stdout,
                                  Message("Compute total proton number of formulas in", 0))
                   /\ Exit(EXIT_FAILURE)
              ELSE /\ stdout' = stdout \o
                                  <<Message("Compute total proton number of formulas in", 0),
                                    Message("Writing formulas to", 0)>>
                   /\ Exit(0)
    /\ UNCHANGED <<formula, valid, args, files, game, tableVars, lineIndex, overallValid,
                   returned>>
    /\ LocalsUnchanged

NextMain ==
    \/ MainUsage
    \/ MainLoadTable
    \/ MainOption
    \/ ValidateOpen
    \/ ValidateLine
    \/ ValidateReturn
    \/ MainVerify
    \/ MainRefuse
    \/ MainExpand
    \/ MainCount

SpecMain == InitMain /\ [][NextMain]_vars

(***************************************************************************)
(* SpecCount: countProtons' loop over one line of expanded.txt, with a     *)
(* table as main hands it over (loaded and sorted).                        *)
(***************************************************************************)
MaxTokens == 5

CountTokens == { <<"H">>, <<"O">>, <<"M","g">>, <<"X">> }

RECURSIVE SpaceSeparated(_)
SpaceSeparated(toks) ==
    IF toks = <<>> THEN <<>>
    ELSE IF Len(toks) = 1 THEN toks[1]
    ELSE toks[1] \o <<" ">> \o SpaceSeparated(Tail(toks))

ExpandedLines ==
    { SpaceSeparated(toks) \o <<NewLine>> :
        toks \in UNION { [1..n -> CountTokens] : n \in 0..MaxTokens } }

\* the table and the count main holds after loading and sorting a file
LoadedTables ==
    { LET r == loadPeriodicTable([opens |-> TRUE, records |-> recs],
                                 [i \in 1..MAX_ELEMENTS |-> g])
      IN  [numElements |-> r.rc,
           periodicTable |-> sortPeriodicTable(r.elements, r.rc)] :
        recs \in TableRecords \ {<<>>, <<Hydrogen>>}, g \in GarbageElements }

Count == CountState(p, totalAtomicNumber)

SetCount(s) ==
    /\ p' = s.p
    /\ totalAtomicNumber' = s.totalAtomicNumber

CountUnchanged ==
    UNCHANGED <<formula, stack, poppedData, poppedType, emptyPop, tempIndex, outVars, valid,
                tableVars, args, files, game, lineIndex, overallValid, returned, stdout,
                exitStatus, invoked, expandedFile>>

InitCount ==
    /\ formula \in ExpandedLines
    /\ LocalsAtStart
    /\ NoProgram
    /\ \E t \in LoadedTables :
          /\ periodicTable = t.periodicTable
          /\ numElements = t.numElements
    /\ pc = "count"

ProtonAlpha ==
    /\ pc = "count"
    /\ CharAt(formula, p) # NUL
    /\ isalpha(CharAt(formula, p))
    /\ SetCount(ProtonAlphaStep(formula, Count, periodicTable))
    /\ UNCHANGED <<pc, outputFile>>
    /\ CountUnchanged

ProtonSkip ==
    /\ pc = "count"
    /\ CharAt(formula, p) # NUL
    /\ ~isalpha(CharAt(formula, p))
    /\ SetCount(ProtonSkipStep(formula, Count))
    /\ UNCHANGED <<pc, outputFile>>
    /\ CountUnchanged

\* fprintf(fout, "%d\n", totalAtomicNumber);
ProtonPrint ==
    /\ pc = "count"
    /\ CharAt(formula, p) = NUL
    /\ outputFile' = <<totalAtomicNumber>>
    /\ pc' = "counted"
    /\ UNCHANGED <<p, totalAtomicNumber>>
    /\ CountUnchanged

NextCount ==
    \/ ProtonAlpha
    \/ ProtonSkip
    \/ ProtonPrint

SpecCount == InitCount /\ [][NextCount]_vars

(***************************************************************************)
(* SpecProtons: one call of countProtons (formulaExpander.c:209-266) on a  *)
(* file of formulas that are one element symbol with a multiplier, the     *)
(* fgets loop over expanded.txt taken one read and one character at a      *)
(* time.                                                                   *)
(***************************************************************************)
\* what processFormula returns for an element symbol followed by one digit
\* run (or by none): the symbol pushed once (formulaExpander.c:58-78),
\* popped and pushed back multiplier times (79-95), and the symbols
\* written with a blank between them (132-172)
ExpandSingle(f) ==
    LET sym == ExpanderSymbol(f, 1)
        n == IF isdigit(CharAt(f, Len(sym) + 1))
             THEN ReadMultiplier(f, Len(sym) + 1, 0).value ELSE 1
        step == Len(sym) + 1
    IN  [i \in 1..((n * step) - 1) |->
            IF (i - 1) % step = Len(sym) THEN " " ELSE sym[((i - 1) % step) + 1]]

\* the lines formulaProcessor writes for a file of such formulas
ExpandSingles(input) ==
    LET reads == Reads(input.lines)
    IN  [i \in 1..Len(reads) |-> ExpandSingle(CutAtNewline(reads[i]))]

SingleFormulas ==
    { <<"H">>, <<"O","2">>, <<"M","g","2">>, <<"H","0">>,
      <<"H","5","1","1">>, <<"H","5","1","2">>, <<"H","6","0","0">> }

ProtonsFiles ==
    [input : [opens : BOOLEAN,
              lines : UNION { [1..n -> SingleFormulas] : n \in 1..MaxLines }],
     outputOpens : BOOLEAN,
     tempOpens : BOOLEAN]

InitProtons ==
    /\ formula = <<>>
    /\ LocalsAtStart
    /\ args = [argc |-> 5, option |-> "-pn"]
    /\ game = NoGame
    /\ files \in ProtonsFiles
    /\ LET r == loadPeriodicTable([opens |-> TRUE,
                                   records |-> <<Magnesium, Hydrogen, Oxygen>>],
                                  [i \in 1..MAX_ELEMENTS |-> Element(<<>>, 0)])
       IN  /\ periodicTable = sortPeriodicTable(r.elements, r.rc)
           /\ numElements = r.rc
    /\ lineIndex = 0
    /\ overallValid = TRUE
    /\ returned = TRUE
    /\ stdout = <<>>
    /\ exitStatus = Uninitialised
    /\ invoked = {}
    /\ outputFile = NoFile
    /\ expandedFile = NoFile
    /\ pc = "protons"

ProtonsUnchanged ==
    UNCHANGED <<stack, poppedData, poppedType, emptyPop, tempIndex, expandedFormula,
                length, bufferSize, tempStack, valid, tableVars,
                args, files, game, lineIndex, overallValid, returned, stdout>>

\* fopen("expanded.txt", "w+"), formulaProcessor, fopen(outputFile, "w").
\* The formulas are a symbol and a digit run, on which no pop of
\* processFormula fails: formulaProcessor prints for its files only
ProtonsOpen ==
    /\ pc = "protons"
    /\ IF ~files.tempOpens
       THEN /\ Exit(EXIT_FAILURE)
            /\ invoked' = {"countProtons"}
            /\ stderr' = Append(stderr, "Unable to create file to store expanded formulas")
            /\ UNCHANGED <<expandedFile, outputFile>>
       ELSE /\ invoked' = {"countProtons", "formulaProcessor"}
            /\ expandedFile' = IF files.input.opens /\ files.tempOpens
                               THEN ExpandSingles(files.input) ELSE <<>>
            /\ IF ~files.outputOpens
               THEN /\ Exit(EXIT_FAILURE)
                    /\ stderr' = stderr
                                   \o formulaProcessorOpenPerror(files.input, files.tempOpens)
                                   \o <<"Unable to open output file for count protons.">>
                    /\ UNCHANGED outputFile
               ELSE /\ outputFile' = <<>>
                    /\ stderr' = stderr
                                   \o formulaProcessorOpenPerror(files.input, files.tempOpens)
                    /\ pc' = "fgets"
                    /\ UNCHANGED exitStatus
    /\ UNCHANGED <<formula, p, totalAtomicNumber>>
    /\ ProtonsUnchanged

\* while (fgets(formula, MAX_FORMULA_LENGTH, fp)) { totalAtomicNumber = 0; p = formula;
ProtonsRead ==
    /\ pc = "fgets"
    /\ Len(outputFile) < Len(Reads(expandedFile))
    /\ formula' = Reads(expandedFile)[Len(outputFile) + 1]
    /\ p' = 1
    /\ totalAtomicNumber' = 0
    /\ pc' = "count"
    /\ UNCHANGED <<exitStatus, invoked, outputFile, expandedFile>>
    /\ UNCHANGED stderr
    /\ ProtonsUnchanged

\* fprintf(fout, "%d\n", totalAtomicNumber); } and back to the fgets
ProtonsPrint ==
    /\ pc = "count"
    /\ CharAt(formula, p) = NUL
    /\ outputFile' = Append(outputFile, totalAtomicNumber)
    /\ pc' = "fgets"
    /\ UNCHANGED <<formula, p, totalAtomicNumber, exitStatus, invoked, expandedFile>>
    /\ UNCHANGED stderr
    /\ ProtonsUnchanged

\* fgets returns NULL: fclose both files and return
ProtonsClose ==
    /\ pc = "fgets"
    /\ Len(outputFile) = Len(Reads(expandedFile))
    /\ pc' = "counted"
    /\ UNCHANGED <<formula, p, totalAtomicNumber, exitStatus, invoked, outputFile,
                   expandedFile>>
    /\ UNCHANGED stderr
    /\ ProtonsUnchanged

NextProtons ==
    \/ ProtonsOpen
    \/ ProtonsRead
    \/ ProtonAlpha
    \/ ProtonSkip
    \/ ProtonsPrint
    \/ ProtonsClose

SpecProtons == InitProtons /\ [][NextProtons]_vars

(***************************************************************************)
(* SpecAlloc: one call of processFormula by formulaProcessor               *)
(* (formulaExpander.c:36-173, 191-201) in which malloc and realloc may     *)
(* fail.  The two output loops are taken one iteration at a time.  After   *)
(* free(stack) and free(tempStack) the variables stack and tempStack hold  *)
(* the nodes that are still allocated.                                     *)
(***************************************************************************)
MaxAllocFailures == 1

AllocMessages ==
    { "Unable to allocate memory for union stack initialization.",
      "Failed to allocate memory for expanded formula",
      "Unable to allocate memory for new node.",
      "Failed to realloc memory for expanded formula" }

\* the allocations that have failed so far in the call
AllocFailures == Cardinality({i \in 1..Len(stderr) : stderr[i] \in AllocMessages})

BudgetLeft == MaxAllocFailures - AllocFailures

\* what the next call of malloc or realloc may do: TRUE is success
Outcomes == IF BudgetLeft > 0 THEN BOOLEAN ELSE {TRUE}

\* initUnionStack(&stack) with the outcome of its malloc (unionStack.c:21-33)
initUnionStackAlloc(ok) ==
    IF ok THEN [rc |-> EXIT_SUCCESS, stack |-> initUnionStack, perror |-> <<>>]
    ELSE [rc |-> EXIT_FAILURE, stack |-> NullStack,
          perror |-> <<"Unable to allocate memory for union stack initialization.">>]

\* pushElementUnion with the outcome of its malloc (unionStack.c:66-85)
pushElementUnionAlloc(s, element, ok) ==
    IF IsNullStack(s)
    THEN [rc |-> EXIT_FAILURE, stack |-> s, perror |-> <<"Union stack is NULL.">>]
    ELSE IF ~ok
    THEN [rc |-> EXIT_FAILURE, stack |-> s,
          perror |-> <<"Unable to allocate memory for new node.">>]
    ELSE [rc |-> EXIT_SUCCESS, stack |-> pushElementUnion(s, element), perror |-> <<>>]

\* the elements of a sequence pushed one after the other, all with success
PushSeq(st, elements) ==
    [top |-> [i \in 1..Len(elements) |->
                 [data |-> elements[Len(elements) + 1 - i], dataType |-> "ELEMENT_TYPE"]]
             \o st.top,
     size |-> st.size + Len(elements)]

\* a sequence without the entries at the positions in `failing`
Without(elements, failing) ==
    LET kept == (1..Len(elements)) \ failing
    IN  [k \in 1..Cardinality(kept) |->
            elements[CHOOSE i \in kept : Cardinality({j \in kept : j <= i}) = k]]

\* the pushes of the loop for (i < n) pushElementUnion(stack, element), in order
CopiesPushed(element, n) == [k \in 1..n |-> element]

\* the pushes of the loops for (i < n) for (j = tempIndex - 1 .. 0), in order
GroupPushed(tempArray, n) ==
    [k \in 1..(n * Len(tempArray)) |->
        tempArray[Len(tempArray) - ((k - 1) % Len(tempArray))]]

\* which of a run of pushes may fail
RECURSIVE SetsUpTo(_, _)
SetsUpTo(n, k) ==
    IF k <= 0 THEN {{}}
    ELSE LET smaller == SetsUpTo(n, k - 1)
         IN  smaller \cup {F \cup {i} : F \in smaller, i \in 1..n}

FailingSets(n) == SetsUpTo(n, BudgetLeft)

NodeFailures(n) == [i \in 1..n |-> "Unable to allocate memory for new node."]

AllocFormulas ==
    { <<>>, <<"H","2","O">>, <<"M","g","(","O","H",")","2">>, <<"(",")">>,
      <<"H","+","O">>, <<"U","u","e","6","5">> }

InitAlloc ==
    /\ formula \in AllocFormulas
    /\ LocalsAtStart
    /\ NoTable
    /\ args = [argc |-> 0, option |-> ""]
    /\ game = NoGame
    /\ files = NoFile
    /\ lineIndex = 0
    /\ overallValid = TRUE
    /\ returned = Uninitialised
    /\ stdout = <<>>
    /\ exitStatus = Uninitialised
    /\ invoked = {"formulaProcessor"}
    /\ outputFile = <<>>
    /\ expandedFile = NoFile
    /\ pc = "alloc"

AllocUnchanged ==
    UNCHANGED <<formula, valid, tableVars, args, files, game, lineIndex, overallValid,
                returned, exitStatus, invoked, expandedFile, totalAtomicNumber>>

\* initUnionStack(&stack) and malloc(bufferSize), each with its error return
AllocEnter ==
    /\ pc = "alloc"
    /\ \E ok \in Outcomes :
          LET r == initUnionStackAlloc(ok)
          IN  IF r.rc # EXIT_SUCCESS
              THEN /\ stack' = r.stack
                   /\ stderr' = stderr \o r.perror \o <<"Error initializing stack.">>
                   /\ pc' = "returned_null"
              ELSE /\ stack' = r.stack
                   /\ \E okBuffer \in Outcomes :
                         IF ~okBuffer
                         THEN /\ stderr' = Append(stderr,
                                     "Failed to allocate memory for expanded formula")
                              /\ pc' = "returned_null"
                         ELSE /\ stderr' = stderr
                              /\ pc' = "alloc_scan"
    /\ UNCHANGED <<p, poppedData, poppedType, emptyPop, tempIndex, expandedFormula, length,
                   bufferSize, tempStack, stdout, outputFile>>
    /\ AllocUnchanged

AllocAlpha ==
    /\ pc = "alloc_scan"
    /\ isalpha(CharAt(formula, p))
    /\ \E ok \in Outcomes :
          LET sym == ExpanderSymbol(formula, p)
              r == pushElementUnionAlloc(stack, Element(sym, 1), ok)
          IN  /\ stack' = r.stack
              /\ stderr' = stderr \o r.perror
              /\ p' = p + Len(sym)
    /\ UNCHANGED <<poppedData, poppedType, emptyPop, tempIndex, expandedFormula, length,
                   bufferSize, tempStack, stdout, outputFile, pc>>
    /\ AllocUnchanged

AllocDigit ==
    /\ pc = "alloc_scan"
    /\ isdigit(CharAt(formula, p))
    /\ LET m == ReadMultiplier(formula, p, 0)
           r == popUnion(stack, poppedData, poppedType)
       IN  /\ p' = m.p
           /\ poppedData' = r.returnValue
           /\ poppedType' = r.returnType
           /\ emptyPop' = [emptyPop EXCEPT !.digit = @ \/ (r.rc = EXIT_FAILURE)]
           /\ tempIndex' = tempIndex
           /\ IF r.rc = EXIT_SUCCESS /\ r.returnType = "ELEMENT_TYPE"
              THEN \E F \in FailingSets(m.value) :
                      /\ stack' = PushSeq(r.stack,
                                     Without(CopiesPushed(r.returnValue, m.value), F))
                      /\ stderr' = stderr \o NodeFailures(Cardinality(F))
              ELSE /\ stack' = r.stack
                   /\ stderr' = stderr \o ScanPerror(formula, Scan)
    /\ UNCHANGED <<expandedFormula, length, bufferSize, tempStack, stdout, outputFile, pc>>
    /\ AllocUnchanged

AllocOpen ==
    /\ pc = "alloc_scan"
    /\ CharAt(formula, p) = "("
    /\ \E ok \in Outcomes :
          LET r == pushElementUnionAlloc(stack, GroupMarker, ok)
          IN  /\ stack' = r.stack
              /\ stderr' = stderr \o r.perror
    /\ p' = p + 1
    /\ UNCHANGED <<poppedData, poppedType, emptyPop, tempIndex, expandedFormula, length,
                   bufferSize, tempStack, stdout, outputFile, pc>>
    /\ AllocUnchanged

AllocClose ==
    /\ pc = "alloc_scan"
    /\ CharAt(formula, p) = ")"
    /\ LET g == PopGroup(Scan, <<>>)
           m == IF isdigit(CharAt(formula, p + 1))
                THEN ReadMultiplier(formula, p + 1, 0)
                ELSE [value |-> 1, p |-> p + 1]
           pushes == GroupPushed(g.tempArray, m.value)
       IN  /\ p' = m.p
           /\ poppedData' = g.state.poppedData
           /\ poppedType' = g.state.poppedType
           /\ emptyPop' = g.state.emptyPop
           /\ tempIndex' = Len(g.tempArray)
           /\ \E F \in FailingSets(Len(pushes)) :
                 /\ stack' = PushSeq(g.state.stack, Without(pushes, F))
                 /\ stderr' = stderr \o ScanPerror(formula, Scan)
                                     \o NodeFailures(Cardinality(F))
    /\ UNCHANGED <<expandedFormula, length, bufferSize, tempStack, stdout, outputFile, pc>>
    /\ AllocUnchanged

AllocOther ==
    /\ pc = "alloc_scan"
    /\ CharAt(formula, p) # NUL
    /\ ~isalpha(CharAt(formula, p))
    /\ ~isdigit(CharAt(formula, p))
    /\ CharAt(formula, p) \notin {"(", ")"}
    /\ p' = p + 1
    /\ UNCHANGED <<stack, poppedData, poppedType, emptyPop, tempIndex, outVars, stdout, outputFile, pc>>
    /\ AllocUnchanged
\* the end of the scan: initUnionStack(&tempStack), its result not tested
AllocTemp ==
    /\ pc = "alloc_scan"
    /\ CharAt(formula, p) = NUL
    /\ \E ok \in Outcomes :
          LET r == initUnionStackAlloc(ok)
          IN  /\ tempStack' = r.stack
              /\ stderr' = stderr \o r.perror
    /\ pc' = "alloc_output"
    /\ UNCHANGED <<p, stack, poppedData, poppedType, emptyPop, tempIndex, expandedFormula, length,
                   bufferSize, stdout, outputFile>>
    /\ AllocUnchanged

\* one iteration of while (!isEmptyUnion(stack)): pop, push on tempStack
AllocDrain ==
    /\ pc = "alloc_output"
    /\ ~isEmptyUnion(stack)
    /\ LET r == popUnion(stack, poppedData, poppedType)
       IN  /\ stack' = r.stack
           /\ poppedData' = r.returnValue
           /\ poppedType' = r.returnType
           /\ IF r.rc = EXIT_SUCCESS /\ r.returnType = "ELEMENT_TYPE"
              THEN \E ok \in Outcomes :
                      LET q == pushElementUnionAlloc(tempStack, r.returnValue, ok)
                      IN  /\ tempStack' = q.stack
                          /\ stderr' = stderr \o q.perror
              ELSE UNCHANGED <<tempStack, stderr>>
    /\ UNCHANGED <<p, emptyPop, tempIndex, expandedFormula, length, bufferSize, stdout, outputFile, pc>>
    /\ AllocUnchanged

\* isEmptyUnion(tempStack) reads tempStack->top through a NULL pointer: the
\* program is ended by the segmentation fault
AllocCrash ==
    /\ pc = "alloc_output"
    /\ isEmptyUnion(stack)
    /\ IsNullStack(tempStack)
    /\ pc' = "crashed"
    /\ UNCHANGED <<p, stack, poppedData, poppedType, emptyPop, tempIndex, outVars, stdout, outputFile>>
    /\ AllocUnchanged

\* one iteration of while (!isEmptyUnion(tempStack)): pop, grow the buffer
\* when it is short, append the symbol and a blank
AllocAppend ==
    /\ pc = "alloc_output"
    /\ isEmptyUnion(stack)
    /\ ~IsNullStack(tempStack)
    /\ ~isEmptyUnion(tempStack)
    /\ LET r == popUnion(tempStack, poppedData, poppedType)
           sym == r.returnValue.chemSymbol
           symbolLen == Len(sym)
           grows == length + symbolLen + 2 >= bufferSize
       IN  /\ tempStack' = r.stack
           /\ poppedData' = r.returnValue
           /\ poppedType' = r.returnType
           /\ \E ok \in (IF grows THEN Outcomes ELSE {TRUE}) :
                 IF ~ok
                 THEN /\ bufferSize' = Double(bufferSize)
                      /\ expandedFormula' = <<>>
                      /\ length' = length
                      /\ stderr' = Append(stderr,
                                     "Failed to realloc memory for expanded formula")
                      /\ pc' = "returned_null"
                 ELSE /\ bufferSize' = IF grows THEN Double(bufferSize) ELSE bufferSize
                      /\ expandedFormula' = SubSeq(expandedFormula, 1, length) \o sym \o <<" ">>
                      /\ length' = length + symbolLen + 1
                      /\ stderr' = stderr
                      /\ pc' = pc
    /\ UNCHANGED <<p, stack, emptyPop, tempIndex, stdout, outputFile>>
    /\ AllocUnchanged

\* both loops have ended: drop the last blank, free the two stacks, return
AllocReturn ==
    /\ pc = "alloc_output"
    /\ isEmptyUnion(stack)
    /\ ~IsNullStack(tempStack)
    /\ isEmptyUnion(tempStack)
    /\ LET out == TrimOutput([text |-> expandedFormula, length |-> length,
                              bufferSize |-> bufferSize])
       IN  /\ expandedFormula' = out.text
           /\ length' = out.length
    /\ pc' = "returned"
    /\ UNCHANGED <<p, stack, poppedData, poppedType, emptyPop, tempIndex, bufferSize, tempStack,
                   stderr, stdout, outputFile>>
    /\ AllocUnchanged

\* formulaProcessor: if (expanded) fprintf(fout, "%s\n", expanded) else printf
AllocWrite ==
    /\ pc \in {"returned", "returned_null"}
    /\ IF pc = "returned"
       THEN /\ outputFile' = Append(outputFile, expandedFormula)
            /\ stdout' = stdout
       ELSE /\ stdout' = Append(stdout, Message("Error processing formula:", 0))
            /\ outputFile' = outputFile
    /\ pc' = IF pc = "returned" THEN "written" ELSE "reported"
    /\ UNCHANGED <<p, stack, poppedData, poppedType, emptyPop, tempIndex, outVars>>
    /\ AllocUnchanged

NextAlloc ==
    \/ AllocEnter
    \/ AllocAlpha
    \/ AllocDigit
    \/ AllocOpen
    \/ AllocClose
    \/ AllocOther
    \/ AllocTemp
    \/ AllocDrain
    \/ AllocCrash
    \/ AllocAppend
    \/ AllocReturn
    \/ AllocWrite

SpecAlloc == InitAlloc /\ [][NextAlloc]_vars

(***************************************************************************)
(* SpecStack: a caller of the union stack (unionStack.c:21-108), as the    *)
(* test program of unionStack.c:155-199 is one: any sequence of            *)
(* initUnionStack, pushCharUnion, pushElementUnion and popUnion on one     *)
(* stack pointer, with the caller's variables data and type as poppedData  *)
(* and poppedType, the result of the last call as returned, and the call   *)
(* the caller has just made as its position.                               *)
(***************************************************************************)
MaxStackSize == 3
MaxDiagnostics == 2

StackChars == {"a", "("}
StackElements == {Element(<<"H","e">>, 2), Element(<<"H">>, 1)}

\* pushCharUnion with the outcome of its malloc (unionStack.c:43-62)
pushCharUnionAlloc(s, c, ok) ==
    IF IsNullStack(s)
    THEN [rc |-> EXIT_FAILURE, stack |-> s, perror |-> <<"Union stack is NULL.">>]
    ELSE IF ~ok
    THEN [rc |-> EXIT_FAILURE, stack |-> s,
          perror |-> <<"Unable to allocate memory for new node.">>]
    ELSE [rc |-> EXIT_SUCCESS, stack |-> pushCharUnion(s, c), perror |-> <<>>]

\* popUnion on a stack pointer that may be NULL (unionStack.c:89-108)
popUnionPtr(s, returnValue, returnType) ==
    LET r == IF IsNullStack(s)
             THEN [rc |-> EXIT_FAILURE, stack |-> s,
                   returnValue |-> returnValue, returnType |-> returnType]
             ELSE popUnion(s, returnValue, returnType)
    IN  [rc |-> r.rc, stack |-> r.stack,
         returnValue |-> r.returnValue, returnType |-> r.returnType,
         perror |-> IF r.rc = EXIT_FAILURE
                    THEN <<"Can't pop from empty/null union stack.">> ELSE <<>>]

\* a call may fail only while the diagnostics are fewer than MaxDiagnostics
StackOutcomes == IF Len(stderr) < MaxDiagnostics THEN BOOLEAN ELSE {TRUE}

\* topUnionType(stack): the tag of the top node as the number the enum gives
\* it, or (StackDataType)-1: the 32-bit pattern of -1, which reads 4294967295
\* in the unsigned type of the enum and compares equal to -1 in C
topUnionType(s) ==
    IF IsNullStack(s) \/ s.top = <<>>
    THEN [rc |-> -1,
          perror |-> <<"Unable to retrieve top of empty/null union stack.">>]
    ELSE [rc |-> IF Head(s.top).dataType = "CHAR_TYPE" THEN 0 ELSE 1,
          perror |-> <<>>]

\* the characters printed for the nodes from the top on: "%c " for a
\* character, "%s(%d) " for an element
RECURSIVE PrintNodes(_)
PrintNodes(nodes) ==
    IF nodes = <<>> THEN <<>>
    ELSE (IF Head(nodes).dataType = "CHAR_TYPE"
          THEN <<Head(nodes).data, " ">>
          ELSE Head(nodes).data.chemSymbol \o <<"(">>
                   \o Decimal(Head(nodes).data.atomicNumber) \o <<")", " ">>)
         \o PrintNodes(Tail(nodes))

\* printUnionStack(stack): the line it prints
printUnionStack(s) ==
    IF IsNullStack(s) \/ s.top = <<>>
    THEN "Stack is empty."
    ELSE PrintNodes(s.top) \o <<NewLine>>

StackCalls ==
    {"initUnionStack", "pushCharUnion", "pushElementUnion", "popUnion",
     "topUnionType", "printUnionStack"}

\* the stack has just been initialised with success
InitStack ==
    /\ formula = <<>>
    /\ LocalsAtStart
    /\ NoTable
    /\ args = [argc |-> 0, option |-> ""]
    /\ game = NoGame
    /\ files = NoFile
    /\ lineIndex = 0
    /\ overallValid = TRUE
    /\ returned = EXIT_SUCCESS
    /\ stdout = <<>>
    /\ exitStatus = Uninitialised
    /\ invoked = {}
    /\ outputFile = NoFile
    /\ expandedFile = NoFile
    /\ pc = "initUnionStack"

StackUnchanged ==
    UNCHANGED <<formula, p, emptyPop, tempIndex, expandedFormula, length, bufferSize, tempStack,
                valid, tableVars, args, files, game, lineIndex, overallValid,
                exitStatus, invoked, outputFile, expandedFile, totalAtomicNumber>>

StackInit ==
    /\ pc \in StackCalls
    /\ pc' = "initUnionStack"
    /\ \E ok \in StackOutcomes :
          LET r == initUnionStackAlloc(ok)
          IN  /\ stack' = r.stack
              /\ returned' = r.rc
              /\ stderr' = stderr \o r.perror
    /\ UNCHANGED <<poppedData, poppedType>>
    /\ stdout' = <<>>
    /\ StackUnchanged

StackPushChar ==
    /\ pc \in StackCalls
    /\ pc' = "pushCharUnion"
    /\ NodesLeft(stack) < MaxStackSize
    /\ IsNullStack(stack) => Len(stderr) < MaxDiagnostics
    /\ \E c \in StackChars, ok \in StackOutcomes :
          LET r == pushCharUnionAlloc(stack, c, ok)
          IN  /\ stack' = r.stack
              /\ returned' = r.rc
              /\ stderr' = stderr \o r.perror
    /\ UNCHANGED <<poppedData, poppedType>>
    /\ stdout' = <<>>
    /\ StackUnchanged

StackPushElement ==
    /\ pc \in StackCalls
    /\ pc' = "pushElementUnion"
    /\ NodesLeft(stack) < MaxStackSize
    /\ IsNullStack(stack) => Len(stderr) < MaxDiagnostics
    /\ \E element \in StackElements, ok \in StackOutcomes :
          LET r == pushElementUnionAlloc(stack, element, ok)
          IN  /\ stack' = r.stack
              /\ returned' = r.rc
              /\ stderr' = stderr \o r.perror
    /\ UNCHANGED <<poppedData, poppedType>>
    /\ stdout' = <<>>
    /\ StackUnchanged

StackPop ==
    /\ pc \in StackCalls
    /\ pc' = "popUnion"
    /\ NodesLeft(stack) = 0 => Len(stderr) < MaxDiagnostics
    /\ LET r == popUnionPtr(stack, poppedData, poppedType)
       IN  /\ stack' = r.stack
           /\ returned' = r.rc
           /\ poppedData' = r.returnValue
           /\ poppedType' = r.returnType
           /\ stderr' = stderr \o r.perror
    /\ stdout' = <<>>
    /\ StackUnchanged

StackTop ==
    /\ pc \in StackCalls
    /\ pc' = "topUnionType"
    /\ NodesLeft(stack) = 0 => Len(stderr) < MaxDiagnostics
    /\ LET r == topUnionType(stack)
       IN  /\ returned' = r.rc
           /\ stderr' = stderr \o r.perror
    /\ UNCHANGED <<stack, poppedData, poppedType>>
    /\ stdout' = <<>>
    /\ StackUnchanged

\* printUnionStack returns nothing: returned keeps the value of the call
\* before. stdout holds what the last call printed.
StackPrint ==
    /\ pc \in StackCalls
    /\ pc' = "printUnionStack"
    /\ stdout' = <<printUnionStack(stack)>>
    /\ UNCHANGED <<stack, poppedData, poppedType, returned, stderr>>
    /\ StackUnchanged

NextStack ==
    \/ StackInit
    \/ StackPushChar
    \/ StackPushElement
    \/ StackPop
    \/ StackTop
    \/ StackPrint

SpecStack == InitStack /\ [][NextStack]_vars

(***************************************************************************)
(* latinsquare.c: the Latin-square game.  The board `square` is the        *)
(* sequence of its first `size` rows, each of `size` cells; a cell read or *)
(* written as square[i - 1][j - 1] in the code is square[i][j] here.       *)
(* game holds play's square and size and the i, j and val that             *)
(* getUserInput fills; files holds the name of the game file, argv[1], and *)
(* whether the output file can be opened; stdout and stderr hold the       *)
(* messages of the last step and outputFile the lines writeLatinSquare     *)
(* wrote, each a sequence of numbers.  A step whose behaviour the C        *)
(* language leaves undefined ends the run of the model in pc "undefined":  *)
(* nothing is said about what the program does from there on.             *)
(***************************************************************************)
N == 9
MaxNumber == 3

abs(x) == IF x < 0 THEN -x ELSE x

Cells(size) == (1..size) \X (1..size)

\* fscanf("%hd") stores the low 16 bits of the number it reads
ToShort(v) == ((v + 32768) % 65536) - 32768

\* the file is a size followed by numbers, read one at a time: the first
\* number that is missing or outside -size..size ends the program with its
\* message; the board is kept when the size is in 1..N and exactly
\* size * size numbers follow, each in -size..size
readLatinSquare(file) ==
    LET refused(message) == [message |-> message, size |-> file.size, square |-> <<>>]
        value(k) == ToShort(file.values[k])
        problems == {k \in 1..(file.size * file.size) :
                        \/ k > Len(file.values)
                        \/ value(k) > file.size
                        \/ value(k) < -file.size}
        first == CHOOSE k \in problems : \A m \in problems : k <= m
    IN  IF file.size <= 0 \/ file.size > N
        THEN refused("Invalid size of Latin Square!")
        ELSE IF problems # {}
        THEN IF first > Len(file.values)
             THEN refused("Error reading Latin Square values.")
             ELSE refused("File contains invalid values!")
        ELSE IF Len(file.values) > file.size * file.size
        THEN refused("File contains more data than expected!")
        ELSE [message |-> "", size |-> file.size,
              square |-> [r \in 1..file.size |->
                            [c \in 1..file.size |->
                               value((r - 1) * file.size + c)]]]

OUTFILE_SIZE == 256

\* writeLatinSquare(filename, square, size).  outfile is "out-" followed by
\* the name of the game file: char outfile[256] = "out-"; strcat(outfile,
\* filename).  The name with its terminator has to fit in outfile: when it
\* does not, strcat writes past the end of the array, which is undefined.
\* Otherwise the file is announced, and then either it cannot be opened, and
\* the program ends with the failure status, or the size is written on the
\* first line and one line per row
writeLatinSquare(filename, square, size, opens) ==
    LET outfile == <<"o", "u", "t", "-">> \o filename
    IN  IF Len(outfile) + 1 > OUTFILE_SIZE
        THEN [undefined |-> TRUE, name |-> outfile, stdout |-> <<>>,
              perror |-> <<>>, exits |-> FALSE, file |-> NoFile]
        ELSE IF ~opens
        THEN [undefined |-> FALSE, name |-> outfile,
              stdout |-> <<"Saving to">>,
              perror |-> <<"Error while opening output file.">>,
              exits |-> TRUE, file |-> NoFile]
        ELSE [undefined |-> FALSE, name |-> outfile,
              stdout |-> <<"Saving to">>, perror |-> <<>>, exits |-> FALSE,
              file |-> <<(<<size>>)>>
                         \o [r \in 1..size |-> [c \in 1..size |-> square[r][c]]]]

\* scanf("%d,%d=%d"): the first input.matched numbers are stored, and the
\* input is valid when all three were
getUserInput(g, input) ==
    [g EXCEPT !.i = IF input.matched >= 1 THEN input.i ELSE @,
              !.j = IF input.matched >= 2 THEN input.j ELSE @,
              !.val = IF input.matched >= 3 THEN input.val ELSE @]

totalOccurrences(val, size, square) ==
    Cardinality({c \in Cells(size) : val # 0 /\ abs(square[c[1]][c[2]]) = val})

checkUserInput(i, j, val, size, square) ==
    IF i = 0 /\ j = 0 /\ val = 0 THEN [rc |-> 0, message |-> <<>>]
    ELSE IF i > size \/ i <= 0 \/ j > size \/ j <= 0 \/ val > size \/ val < 0
         THEN [rc |-> 1, message |-> <<"Error: i,j or val are outside the allowed range">>]
    ELSE IF square[i][j] < 0
         THEN [rc |-> 1, message |-> <<"Error: illegal to modify pre-given cell">>]
    ELSE IF val # 0 /\ square[i][j] # 0
         THEN [rc |-> 1, message |-> <<"Error: cell is already occupied!">>]
    ELSE IF totalOccurrences(val, size, square) >= size
         THEN [rc |-> 1, message |-> <<"Error: Illegal value insertion! | Number already appears">>]
    ELSE IF \E col \in 1..size : val # 0 /\ abs(square[i][col]) = val
         THEN [rc |-> 1, message |-> <<"Error: Illegal value insertion! | Value already exists in row">>]
    ELSE IF \E row \in 1..size : val # 0 /\ abs(square[row][j]) = val
         THEN [rc |-> 1, message |-> <<"Error: Illegal value insertion! | Value already exists in column">>]
    ELSE [rc |-> 0, message |-> <<>>]

emptyCellCount(square, size) ==
    Cardinality({c \in Cells(size) : square[c[1]][c[2]] = 0})

\* the cell square[i - 1][j - 1] of the code is one of the board's cells
InsideBoard(g) == g.i \in 1..g.size /\ g.j \in 1..g.size

\* the files the game is started on: a 2 x 2 and a 3 x 3 board with pre-given
\* (negative) cells, a full 1 x 1 board, a board with a value twice in a row,
\* files readLatinSquare refuses, and a number wider than a short
BoardFiles ==
    { [size |-> 2, values |-> <<-1, 0, 0, 0>>],
      [size |-> 3, values |-> <<-1, -2, 0, 0, -3, 0, 0, 0, -2>>],
      [size |-> 1, values |-> <<1>>],
      [size |-> 2, values |-> <<-1, -1, 0, 0>>],
      [size |-> 2, values |-> <<-1, 0, 0, 3>>],
      [size |-> 2, values |-> <<-1, 0, 0>>],
      [size |-> 2, values |-> <<3, 0, 0>>],
      [size |-> 1, values |-> <<65537>>],
      [size |-> 2, values |-> <<-1, 0, 0, 0, 0>>],
      [size |-> 0, values |-> <<>>],
      [size |-> 10, values |-> <<>>] }

LoadedBoards ==
    {b \in {readLatinSquare(file) : file \in BoardFiles} : b.message = ""}

\* the names the game file may have: the longest name whose output file name
\* fits in outfile, and a name one character longer
FileNames ==
    {[k \in 1..n |-> "b"] : n \in {OUTFILE_SIZE - 5, OUTFILE_SIZE - 4}}

Numbers == -1..MaxNumber

\* what the user types at a prompt: a command i,j=val, or a line of which
\* scanf matches fewer than three numbers
Inputs ==
    [matched : {3}, i : Numbers, j : Numbers, val : Numbers]
    \cup {[matched |-> 0, i |-> 0, j |-> 0, val |-> 0],
          [matched |-> 2, i |-> 0, j |-> 0, val |-> 0]}

InitLatin ==
    /\ \E b \in LoadedBoards :
          game = [square |-> b.square, size |-> b.size, i |-> 0, j |-> 0, val |-> 0]
    /\ formula = <<>>
    /\ LocalsAtStart
    /\ NoTable
    /\ args = [argc |-> 2, option |-> ""]
    /\ files \in [name : FileNames, outputOpens : BOOLEAN]
    /\ lineIndex = 0
    /\ overallValid = TRUE
    /\ returned = Uninitialised
    /\ stdout = <<>>
    /\ exitStatus = Uninitialised
    /\ invoked = {}
    /\ outputFile = NoFile
    /\ expandedFile = NoFile
    /\ pc = "play"

LatinUnchanged ==
    UNCHANGED <<formula, scanVars, expandedFormula, length, bufferSize,
                tempStack, valid, tableVars, args, files, lineIndex,
                overallValid, returned, invoked, expandedFile,
                totalAtomicNumber>>

\* writeLatinSquare and what follows it in play: the run ends at the
\* undefined strcat, or the program ends in writeLatinSquare, which could not
\* open the output file, or the file is written, "Done." is printed and the
\* program ends by exit or by the return of main
Save(square, before) ==
    LET w == writeLatinSquare(files.name, square, game.size, files.outputOpens)
    IN  IF w.undefined
        THEN /\ stdout' = before
             /\ stderr' = <<>>
             /\ pc' = "undefined"
             /\ UNCHANGED <<exitStatus, outputFile>>
        ELSE IF w.exits
        THEN /\ stdout' = before \o w.stdout
             /\ stderr' = w.perror
             /\ exitStatus' = EXIT_FAILURE
             /\ pc' = "exited"
             /\ UNCHANGED outputFile
        ELSE /\ stdout' = before \o w.stdout \o <<"Done.">>
             /\ stderr' = w.perror
             /\ outputFile' = w.file
             /\ exitStatus' = EXIT_SUCCESS
             /\ pc' = "exited"

\* getUserInput is given a line that is not a command: it prints the format
\* message and asks again
GetUserInputWrongFormat ==
    /\ pc \in {"play", "reprompt"}
    /\ \E input \in Inputs :
          /\ input.matched # 3
          /\ game' = getUserInput(game, input)
    /\ stdout' = <<"Wrong format of command.">>
    /\ stderr' = <<>>
    /\ UNCHANGED <<pc, exitStatus, outputFile>>
    /\ LatinUnchanged

\* play's first getUserInput of a round, and the test for 0,0=0 that follows
PlayPrompt ==
    /\ pc = "play"
    /\ \E input \in Inputs :
          /\ input.matched = 3
          /\ game' = getUserInput(game, input)
    /\ IF game'.i = 0 /\ game'.j = 0 /\ game'.val = 0
       THEN Save(game.square, <<>>)
       ELSE /\ pc' = "check"
            /\ stdout' = <<>>
            /\ stderr' = <<>>
            /\ UNCHANGED <<exitStatus, outputFile>>
    /\ LatinUnchanged

\* the condition of the while loop around checkUserInput
PlayCheck ==
    /\ pc = "check"
    /\ LET r == checkUserInput(game.i, game.j, game.val, game.size, game.square)
       IN  /\ stdout' = r.message
           /\ stderr' = <<>>
           /\ pc' = IF r.rc = 1 THEN "reprompt" ELSE "move"
    /\ UNCHANGED <<game, exitStatus, outputFile>>
    /\ LatinUnchanged

\* the getUserInput inside the while loop, after a rejected command
PlayReprompt ==
    /\ pc = "reprompt"
    /\ \E input \in Inputs :
          /\ input.matched = 3
          /\ game' = getUserInput(game, input)
    /\ pc' = "check"
    /\ stdout' = <<>>
    /\ stderr' = <<>>
    /\ UNCHANGED <<exitStatus, outputFile>>
    /\ LatinUnchanged

\* the end of a round: the board is full (game over, saved, main returns) or
\* play asks for the next command
RoundEnd(square, message) ==
    IF emptyCellCount(square, game.size) = 0
    THEN Save(square, <<message, "Game completed!!!">>)
    ELSE /\ stdout' = <<message>>
         /\ stderr' = <<>>
         /\ pc' = "play"
         /\ UNCHANGED <<exitStatus, outputFile>>

\* the move is executed on a cell of the board
PlayMove ==
    /\ pc = "move"
    /\ InsideBoard(game)
    /\ game' = [game EXCEPT !.square[game.i][game.j] = game.val]
    /\ RoundEnd(game'.square, IF game.val = 0 THEN "Value cleared!"
                                              ELSE "Value inserted!")
    /\ LatinUnchanged

\* the move is executed with i and j outside the board: square[-1][-1] lies
\* before the array, so the assignment is undefined.  The run of the model
\* ends at the assignment: nothing is said about the board, the messages or
\* the end of the program after it
PlayMoveOutside ==
    /\ pc = "move"
    /\ ~InsideBoard(game)
    /\ pc' = "undefined"
    /\ stdout' = <<>>
    /\ stderr' = <<>>
    /\ UNCHANGED <<game, exitStatus, outputFile>>
    /\ LatinUnchanged

NextLatin ==
    \/ GetUserInputWrongFormat
    \/ PlayPrompt
    \/ PlayCheck
    \/ PlayReprompt
    \/ PlayMove
    \/ PlayMoveOutside

SpecLatin == InitLatin /\ [][NextLatin]_vars

(***************************************************************************)
(* processFormula on formulas with large multipliers.  The counted loops   *)
(* of the scan are taken at once: a loop that pushes n nodes leaves the n  *)
(* nodes on the stack, the loop that pops a group leaves the entries above *)
(* the group marker in tempArray.  The output is built one token per step. *)
(***************************************************************************)
MaxCopies == 1026

ElementNode(element) == [data |-> element, dataType |-> "ELEMENT_TYPE"]

\* for (i = 0; i < n; i++) pushElementUnion(stack, element);
PushCopiesAtOnce(st, element, n) ==
    IF n <= 0 THEN st
    ELSE [top |-> [k \in 1..n |-> ElementNode(element)] \o st.top,
          size |-> st.size + n]

DigitStepAtOnce(f, s) ==
    LET m == ReadMultiplier(f, s.p, 0)
        r == popUnion(s.stack, s.poppedData, s.poppedType)
    IN  ScanState(m.p,
                  IF r.rc = EXIT_SUCCESS /\ r.returnType = "ELEMENT_TYPE"
                  THEN PushCopiesAtOnce(r.stack, r.returnValue, m.value)
                  ELSE r.stack,
                  r.returnValue, r.returnType,
                  [s.emptyPop EXCEPT !.digit = @ \/ (r.rc = EXIT_FAILURE)])

\* while (popUnion(..) == EXIT_SUCCESS && poppedType == ELEMENT_TYPE
\*        && strcmp(symbol, "(") != 0) tempArray[tempIndex++] = element;
\* the loop stops at the first entry that is not an element or is the group
\* marker, which it has popped, or at the failing pop from the empty stack
PopGroupAtOnce(s) ==
    LET top == s.stack.top
        stops == {k \in 1..Len(top) :
                     \/ top[k].dataType # "ELEMENT_TYPE"
                     \/ top[k].data.chemSymbol = <<"(">>}
        last == IF stops = {} THEN Len(top)
                ELSE CHOOSE k \in stops : \A m \in stops : k <= m
        stored == IF stops = {} THEN Len(top) ELSE last - 1
    IN  [state |->
            ScanState(s.p,
                      [top |-> SubSeq(top, last + 1, Len(top)),
                       size |-> s.stack.size - last],
                      IF last = 0 THEN s.poppedData ELSE top[last].data,
                      IF last = 0 THEN s.poppedType ELSE top[last].dataType,
                      [s.emptyPop EXCEPT !.group = @ \/ (stops = {})]),
         tempArray |-> [k \in 1..stored |-> top[k].data]]

\* for (i = 0; i < n; i++)
\*     for (j = tempIndex - 1; j >= 0; j--) pushElementUnion(stack, tempArray[j]);
ReplayGroupAtOnce(st, tempArray, n) ==
    IF n <= 0 \/ tempArray = <<>> THEN st
    ELSE [top |-> [k \in 1..(n * Len(tempArray)) |->
                     ElementNode(tempArray[((k - 1) % Len(tempArray)) + 1])] \o st.top,
          size |-> st.size + (n * Len(tempArray))]

CloseStepAtOnce(f, s) ==
    LET g == PopGroupAtOnce(s)
        m == IF isdigit(CharAt(f, s.p + 1))
             THEN ReadMultiplier(f, s.p + 1, 0)
             ELSE [value |-> 1, p |-> s.p + 1]
    IN  [g.state EXCEPT !.stack = ReplayGroupAtOnce(g.state.stack, g.tempArray, m.value),
                        !.p = m.p]

\* while (!isEmptyUnion(stack)) { pop from stack, push on tempStack }
DrainAtOnce(st) ==
    LET n == Len(st.top)
        popped == [k \in 1..n |-> st.top[k]]
        kept == SelectSeq(popped, LAMBDA node : node.dataType = "ELEMENT_TYPE")
    IN  [top |-> [k \in 1..Len(kept) |-> kept[Len(kept) + 1 - k]],
         size |-> Len(kept)]

\* variant: the buffer is grown only when the length has reached its size
AppendTokenGrowLate(out, sym) ==
    LET symbolLen == Len(sym)
        size == IF out.length >= out.bufferSize
                THEN Double(out.bufferSize) ELSE out.bufferSize
    IN  [text |-> SubSeq(out.text, 1, out.length) \o sym \o <<" ">>,
         length |-> out.length + symbolLen + 1,
         bufferSize |-> size]

\* one round of the output loop for a popped element: grow the buffer,
\* strcpy the symbol at length, put the space after it
AppendToken(out, sym) ==
    LET symbolLen == Len(sym)
        size == IF out.length + symbolLen + 2 >= out.bufferSize
                THEN Double(out.bufferSize) ELSE out.bufferSize
    IN  [text |-> SubSeq(out.text, 1, out.length) \o sym \o <<" ">>,
         length |-> out.length + symbolLen + 1,
         bufferSize |-> size]

LongSymbols == {<<"H">>, <<"H", "g">>, <<"H", "g", "g">>}

LongCounts == {2} \cup ((MAX_FORMULA_LENGTH - 1)..MaxCopies)

\* a group of one symbol with a multiplier, alone, doubled, and with a
\* character the scan steps over
LongFormulas ==
    {<<"(">> \o sym \o Decimal(m) \o <<")">> : sym \in LongSymbols, m \in LongCounts}
    \cup {<<"(">> \o <<"H">> \o Decimal(m) \o <<")", "2">> :
              m \in {2, MAX_FORMULA_LENGTH, MAX_FORMULA_LENGTH + 1}}
    \cup {<<"(", "H", "+", "H", "2", ")">>}

InitLong ==
    /\ formula \in LongFormulas
    /\ LocalsAtStart
    /\ NoProgram
    /\ NoTable
    /\ pc = "long_scan"

LongUnchanged ==
    UNCHANGED <<formula, valid, tableVars, mainVars, totalAtomicNumber>>

LongAlpha ==
    /\ pc = "long_scan"
    /\ isalpha(CharAt(formula, p))
    /\ SetScan(AlphaStep(formula, Scan))
    /\ stderr' = stderr \o ScanPerror(formula, Scan)
    /\ UNCHANGED <<tempIndex, expandedFormula, length, bufferSize, tempStack, pc>>
    /\ LongUnchanged

LongDigit ==
    /\ pc = "long_scan"
    /\ isdigit(CharAt(formula, p))
    /\ SetScan(DigitStepAtOnce(formula, Scan))
    /\ stderr' = stderr \o ScanPerror(formula, Scan)
    /\ UNCHANGED <<tempIndex, expandedFormula, length, bufferSize, tempStack, pc>>
    /\ LongUnchanged

LongOpen ==
    /\ pc = "long_scan"
    /\ CharAt(formula, p) = "("
    /\ SetScan(OpenStep(formula, Scan))
    /\ stderr' = stderr \o ScanPerror(formula, Scan)
    /\ UNCHANGED <<tempIndex, expandedFormula, length, bufferSize, tempStack, pc>>
    /\ LongUnchanged

\* tempArray has MAX_FORMULA_LENGTH entries.  When the group has more, the
\* store of entry MAX_FORMULA_LENGTH + 1 is a write past the end of the
\* array, which is undefined: the run of the model ends at that store, with
\* the entry popped and tempIndex counting it, and nothing is said about
\* what the program does afterwards
LongClose ==
    /\ pc = "long_scan"
    /\ CharAt(formula, p) = ")"
    /\ LET g == PopGroupAtOnce(Scan)
       IN  IF Len(g.tempArray) <= MAX_FORMULA_LENGTH
           THEN /\ SetScan(CloseStepAtOnce(formula, Scan))
                /\ tempIndex' = Len(g.tempArray)
                /\ stderr' = stderr \o ScanPerror(formula, Scan)
                /\ pc' = pc
           ELSE /\ stack' = [top |-> SubSeq(stack.top, MAX_FORMULA_LENGTH + 2,
                                            Len(stack.top)),
                             size |-> stack.size - (MAX_FORMULA_LENGTH + 1)]
                /\ poppedData' = stack.top[MAX_FORMULA_LENGTH + 1].data
                /\ poppedType' = stack.top[MAX_FORMULA_LENGTH + 1].dataType
                /\ tempIndex' = MAX_FORMULA_LENGTH + 1
                /\ pc' = "undefined"
                /\ UNCHANGED <<p, emptyPop, stderr>>
    /\ UNCHANGED <<expandedFormula, length, bufferSize, tempStack>>
    /\ LongUnchanged

LongOther ==
    /\ pc = "long_scan"
    /\ CharAt(formula, p) # NUL
    /\ ~isalpha(CharAt(formula, p))
    /\ ~isdigit(CharAt(formula, p))
    /\ CharAt(formula, p) \notin {"(", ")"}
    /\ SetScan(OtherStep(formula, Scan))
    /\ stderr' = stderr \o ScanPerror(formula, Scan)
    /\ UNCHANGED <<tempIndex, expandedFormula, length, bufferSize, tempStack, pc>>
    /\ LongUnchanged

\* the scan has reached the terminator: the stack is emptied into tempStack
LongDrain ==
    /\ pc = "long_scan"
    /\ CharAt(formula, p) = NUL
    /\ tempStack' = DrainAtOnce(stack)
    /\ stack' = initUnionStack
    /\ poppedData' = IF isEmptyUnion(stack) THEN poppedData
                     ELSE stack.top[Len(stack.top)].data
    /\ poppedType' = IF isEmptyUnion(stack) THEN poppedType
                     ELSE stack.top[Len(stack.top)].dataType
    /\ pc' = "long_output"
    /\ UNCHANGED <<p, emptyPop, tempIndex, expandedFormula, length, bufferSize, stderr>>
    /\ LongUnchanged

\* one round of the output loop
LongAppend ==
    /\ pc = "long_output"
    /\ ~isEmptyUnion(tempStack)
    /\ LET r == popUnion(tempStack, poppedData, poppedType)
           out == AppendToken([text |-> expandedFormula, length |-> length,
                               bufferSize |-> bufferSize],
                              r.returnValue.chemSymbol)
       IN  /\ tempStack' = r.stack
           /\ poppedData' = r.returnValue
           /\ poppedType' = r.returnType
           /\ expandedFormula' = out.text
           /\ length' = out.length
           /\ bufferSize' = out.bufferSize
    /\ UNCHANGED <<p, stack, emptyPop, tempIndex, stderr, pc>>
    /\ LongUnchanged

\* the output loop has ended: drop the last blank, free the stacks, return
LongReturn ==
    /\ pc = "long_output"
    /\ isEmptyUnion(tempStack)
    /\ LET out == TrimOutput([text |-> expandedFormula, length |-> length,
                              bufferSize |-> bufferSize])
       IN  /\ expandedFormula' = out.text
           /\ length' = out.length
    /\ pc' = "returned"
    /\ UNCHANGED <<p, stack, poppedData, poppedType, emptyPop, tempIndex,
                   bufferSize, tempStack, stderr>>
    /\ LongUnchanged

NextLong ==
    \/ LongAlpha
    \/ LongDigit
    \/ LongOpen
    \/ LongClose
    \/ LongOther
    \/ LongDrain
    \/ LongAppend
    \/ LongReturn

SpecLong == InitLong /\ [][NextLong]_vars

(***************************************************************************)
(* Reference notions the properties are stated with.                       *)
(***************************************************************************)
CountOf(f, c, k) == Cardinality({i \in 1..k : f[i] = c})

\* properly nested: no prefix closes more than it opens, the totals agree
ProperlyNested(f) ==
    /\ \A k \in 0..Len(f) : CountOf(f, ")", k) <= CountOf(f, "(", k)
    /\ CountOf(f, ")", Len(f)) = CountOf(f, "(", Len(f))

\* every digit run directly follows an element symbol or a ')'
DigitsAttached(f) ==
    \A i \in 1..Len(f) :
        (isdigit(f[i]) /\ ~isdigit(CharAt(f, i - 1)))
            => (isalpha(CharAt(f, i - 1)) \/ CharAt(f, i - 1) = ")")

\* an uppercase letter with up to two lowercase letters after it, or one letter
RefSymbol(f, i) ==
    LET more == IF ~isupper(f[i]) THEN 0
                ELSE IF ~islower(CharAt(f, i + 1)) THEN 0
                ELSE IF ~islower(CharAt(f, i + 2)) THEN 1 ELSE 2
    IN  SubSeq(f, i, i + more)

RECURSIVE Power10(_)
Power10(n) == IF n = 0 THEN 1 ELSE 10 * Power10(n - 1)

RECURSIVE RunEnd(_, _)
RunEnd(f, i) == IF isdigit(CharAt(f, i)) THEN RunEnd(f, i + 1) ELSE i

RECURSIVE DecimalValue(_, _, _)
DecimalValue(f, i, j) ==
    IF i >= j THEN 0
    ELSE DigitValue(f[i]) * Power10(j - i - 1) + DecimalValue(f, i + 1, j)

\* the count written at position i: the decimal number there, 1 if none
RefCount(f, i) ==
    IF isdigit(CharAt(f, i))
    THEN [value |-> DecimalValue(f, i, RunEnd(f, i)), next |-> RunEnd(f, i)]
    ELSE [value |-> 1, next |-> i]

RECURSIVE Copies(_, _)
Copies(toks, n) == IF n <= 0 THEN <<>> ELSE toks \o Copies(toks, n - 1)

\* left-to-right expansion of the items from position i up to the ')' that
\* closes them or the end of the formula
RECURSIVE RefItems(_, _)
RefItems(f, i) ==
    IF i > Len(f) \/ f[i] = ")" THEN [toks |-> <<>>, next |-> i]
    ELSE IF isalpha(f[i]) THEN
        LET sym == RefSymbol(f, i)
            m == RefCount(f, i + Len(sym))
            rest == RefItems(f, m.next)
        IN  [toks |-> Copies(<<sym>>, m.value) \o rest.toks, next |-> rest.next]
    ELSE IF f[i] = "(" THEN
        LET inner == RefItems(f, i + 1)
            m == RefCount(f, inner.next + 1)
            rest == RefItems(f, m.next)
        IN  [toks |-> Copies(inner.toks, m.value) \o rest.toks, next |-> rest.next]
    ELSE RefItems(f, i + 1)

RefExpansion(f) == RefItems(f, 1).toks

RECURSIVE JoinTokens(_)
JoinTokens(toks) ==
    IF toks = <<>> THEN <<>>
    ELSE IF Len(toks) = 1 THEN toks[1]
    ELSE toks[1] \o <<" ">> \o JoinTokens(Tail(toks))

\* the symbols on a stack, oldest entry first
BottomToTop(st) ==
    [i \in 1..Len(st.top) |-> st.top[Len(st.top) + 1 - i].data.chemSymbol]

TopToBottom(st) == [i \in 1..Len(st.top) |-> st.top[i].data.chemSymbol]

IsElementSymbol(sym) ==
    /\ Len(sym) \in 1..3
    /\ \A i \in 1..Len(sym) : isalpha(sym[i])

MgOH2 == <<"M","g","(","O","H",")","2">>
CaOH2 == <<"C","a","(","O","H",")","2">>
H2O == <<"H","2","O">>
Nested == <<"(","(","O","H",")","2","H",")","2">>

(***************************************************************************)
(* C1.  For a formula with balanced parentheses whose digit runs each      *)
(* follow an element symbol or a ')', the string processFormula returns is *)
(* the left-to-right reference expansion, at any nesting depth.            *)
(***************************************************************************)
C1_ExpansionIsReference ==
    (pc = "returned" /\ ProperlyNested(formula) /\ DigitsAttached(formula))
        => expandedFormula = JoinTokens(RefExpansion(formula))

C1_Witness ==
    /\ pc = "returned"
    /\ formula = Nested
    /\ expandedFormula = JoinTokens(<<<<"O">>, <<"H">>, <<"O">>, <<"H">>, <<"H">>,
                                      <<"O">>, <<"H">>, <<"O">>, <<"H">>, <<"H">>>>)

(***************************************************************************)
(* C2.  As claimed: processFormula on "Mg(OH)2" returns "O H O H Mg".      *)
(* As the code has it: it returns "Mg O H O H", Mg first and the group's   *)
(* tokens O then H twice after it.                                         *)
(***************************************************************************)
C2_Original_MgLast ==
    (pc = "returned" /\ formula = MgOH2)
        => expandedFormula = <<"O"," ","H"," ","O"," ","H"," ","M","g">>

C2_MgFirst ==
    (pc = "returned" /\ formula = MgOH2)
        => expandedFormula = <<"M","g"," ","O"," ","H"," ","O"," ","H">>

C2_Witness ==
    /\ pc = "returned"
    /\ formula = MgOH2
    /\ Len(expandedFormula) = 10

(***************************************************************************)
(* C3.  As claimed: the returned string lists the tokens of the main stack *)
(* from last-pushed to first-pushed, and "H2O" gives "O H H".  As the code *)
(* has it: the string lists them from first-pushed to last-pushed, and     *)
(* "H2O" gives "H H O".                                                    *)
(***************************************************************************)
C3_Original_LastPushedFirst ==
    [][(pc = "scan" /\ pc' = "returned")
        => /\ expandedFormula' = JoinTokens(TopToBottom(stack))
           /\ (formula = H2O => expandedFormula' = <<"O"," ","H"," ","H">>)]_vars

C3_FirstPushedFirst ==
    [][(pc = "scan" /\ pc' = "returned")
        => /\ expandedFormula' = JoinTokens(BottomToTop(stack))
           /\ (formula = H2O => expandedFormula' = <<"H"," ","H"," ","O">>)]_vars

C3_Witness ==
    /\ pc = "returned"
    /\ formula = H2O
    /\ expandedFormula = <<"H"," ","H"," ","O">>

(***************************************************************************)
(* C4.  For a formula accepted by checkParentheses, processFormula never   *)
(* calls popUnion on an empty stack, neither in the digit-multiplier step  *)
(* nor in the group-closing step.                                          *)
(***************************************************************************)
C4_NoPopOnEmptyStack ==
    checkParentheses(formula) => (~emptyPop.digit /\ ~emptyPop.group)

(***************************************************************************)
(* C5.  For a balanced formula of letters, digits and parentheses, every   *)
(* token on the main stack at the end of the scan is an element symbol of  *)
(* 1 to 3 letters, and the returned string holds no "(" and no digit.      *)
(***************************************************************************)
C5_OnlyElementSymbols ==
    (/\ checkParentheses(formula)
     /\ \A i \in 1..Len(formula) :
            isalpha(formula[i]) \/ isdigit(formula[i]) \/ formula[i] \in {"(", ")"})
        => /\ (pc = "scan" /\ CharAt(formula, p) = NUL)
                => \A i \in 1..Len(stack.top) :
                       IsElementSymbol(stack.top[i].data.chemSymbol)
           /\ pc = "returned"
                => \A i \in 1..Len(expandedFormula) :
                       expandedFormula[i] # "(" /\ ~isdigit(expandedFormula[i])

(***************************************************************************)
(* C6.  checkParentheses returns true exactly for the properly nested      *)
(* strings, whatever other characters they hold: false for "H2(O" and      *)
(* ")(", true for "H2O" and "Ca(OH)2".                                     *)
(***************************************************************************)
C6_BalancedIffProperlyNested ==
    pc = "checked"
        => /\ valid <=> ProperlyNested(formula)
           /\ formula \in {<<"H","2","(","O">>, <<")","(">>} => ~valid
           /\ formula \in {H2O, CaOH2} => valid

C6_Witness ==
    /\ pc = "checked"
    /\ formula = <<"H","2","(","O">>
    /\ ~valid

(***************************************************************************)
(* C7.  In the -ext and -pn modes with a readable input file,              *)
(* formulaProcessor or countProtons is invoked only after                  *)
(* validateParentheses has scanned every line and found them all balanced; *)
(* with an unbalanced line the program ends with exit status 1 and neither *)
(* is ever started.                                                        *)
(***************************************************************************)
AllLinesNested == \A i \in 1..Len(files.input.lines) : ProperlyNested(files.input.lines[i])

C7_ValidationGatesProcessing ==
    (files.input.opens /\ args.option \in {"-ext", "-pn"})
        => /\ invoked # {} => (lineIndex = Len(files.input.lines) /\ AllLinesNested)
           /\ ~AllLinesNested => /\ invoked = {}
                                 /\ pc = "exited" => exitStatus = 1

C7_Witness ==
    /\ pc = "exited"
    /\ files.input.opens
    /\ args.option = "-pn"
    /\ Len(files.input.lines) = MaxLines
    /\ lineIndex = MaxLines
    /\ invoked = {"countProtons", "formulaProcessor"}
    /\ exitStatus = 0

(***************************************************************************)
(* C8.  When the input file cannot be opened, validateParentheses does not *)
(* return true, and a run in -v, -ext or -pn mode ends with a non-zero     *)
(* exit status, without reporting the file as balanced and without         *)
(* invoking expansion or proton counting.                                  *)
(***************************************************************************)
ReportedBalanced ==
    \E i \in 1..Len(stdout) :
        stdout[i].text = "Parentheses are balanced for all chemical formulas."

C8_UnreadableInputIsAnError ==
    ~files.input.opens
        => /\ pc = "validated" => ~returned
           /\ pc = "exited" => exitStatus # 0
           /\ ~ReportedBalanced
           /\ invoked = {}

(***************************************************************************)
(* C9.  For an expanded formula whose tokens are all in the loaded table,  *)
(* countProtons prints the sum of the atomic numbers of its tokens, each   *)
(* occurrence counted, whatever their order; with the table                *)
(* {H:1, O:8, Mg:12} the line "O H O H Mg" gives 30.                       *)
(***************************************************************************)
\* the tokens of an expanded line: the maximal runs of non-blank characters
RECURSIVE LineTokens(_, _)
LineTokens(line, cur) ==
    IF line = <<>> THEN (IF cur = <<>> THEN <<>> ELSE <<cur>>)
    ELSE IF Head(line) \in {" ", NewLine}
    THEN (IF cur = <<>> THEN <<>> ELSE <<cur>>) \o LineTokens(Tail(line), <<>>)
    ELSE LineTokens(Tail(line), Append(cur, Head(line)))

LoadedSymbols == {periodicTable[i].chemSymbol : i \in 1..numElements}

NumberOf(sym) ==
    (CHOOSE e \in {periodicTable[i] : i \in 1..numElements} : e.chemSymbol = sym).atomicNumber

Occurrences(toks, sym) == Cardinality({i \in 1..Len(toks) : toks[i] = sym})

RECURSIVE WeightedSum(_, _)
WeightedSum(toks, syms) ==
    IF syms = {} THEN 0
    ELSE LET sym == CHOOSE x \in syms : TRUE
         IN  Occurrences(toks, sym) * NumberOf(sym) + WeightedSum(toks, syms \ {sym})

C9_TotalIsSumOfAtomicNumbers ==
    LET toks == LineTokens(formula, <<>>)
    IN  (pc = "counted" /\ \A i \in 1..Len(toks) : toks[i] \in LoadedSymbols)
            => /\ outputFile = <<WeightedSum(toks, LoadedSymbols)>>
               /\ (/\ LoadedSymbols = {<<"H">>, <<"O">>, <<"M","g">>}
                   /\ formula = <<"O"," ","H"," ","O"," ","H"," ","M","g",NewLine>>)
                    => outputFile = <<30>>

C9_Witness ==
    /\ pc = "counted"
    /\ LoadedSymbols = {<<"H">>, <<"O">>, <<"M","g">>}
    /\ formula = <<"O"," ","H"," ","O"," ","H"," ","M","g",NewLine>>
    /\ outputFile = <<30>>

(***************************************************************************)
(* C10.  A token whose symbol is absent from the periodic table adds 0 to  *)
(* the total of its line, counting goes on with the remaining tokens, and  *)
(* the printed total is never negative.                                    *)
(***************************************************************************)
C10_AbsentSymbolCountsZero ==
    LET toks == LineTokens(formula, <<>>)
    IN  pc = "counted"
            => /\ outputFile = <<WeightedSum(toks, LoadedSymbols)>>
               /\ outputFile[1] >= 0

(***************************************************************************)
(* C11.  For a file of balanced formulas, countProtons writes exactly one  *)
(* integer per formula line, and the i-th integer is the total over all    *)
(* tokens of the expansion of the i-th formula, however long that          *)
(* expansion is.                                                           *)
(***************************************************************************)
\* the total of a formula that is one symbol with a multiplier
SingleTotal(f) ==
    LET sym == RefSymbol(f, 1)
    IN  RefCount(f, Len(sym) + 1).value * NumberOf(sym)

C11_OneTotalPerFormulaLine ==
    (pc = "counted" /\ files.input.opens)
        => /\ Len(outputFile) = Len(files.input.lines)
           /\ \A i \in 1..Len(files.input.lines) :
                  i <= Len(outputFile) => outputFile[i] = SingleTotal(files.input.lines[i])

(***************************************************************************)
(* C12.  validateParentheses on a readable file processes every line, also *)
(* after a failing one, reports the 1-based number of each unbalanced line *)
(* and no number for a balanced line, and returns true exactly when every  *)
(* line is balanced.                                                       *)
(***************************************************************************)
\* the line numbers reported so far, in the order they were printed
ReportedLines ==
    LET at == {i \in 1..Len(stdout) : stdout[i].text = "Parentheses NOT balanced in line:"}
    IN  [k \in 1..Cardinality(at) |->
            stdout[CHOOSE i \in at : Cardinality({j \in at : j <= i}) = k].number]

UnbalancedUpTo(n) == {i \in 1..n : ~ProperlyNested(files.input.lines[i])}

\* every line of the file, with its newline, is taken by one read of fgets
LinesFitOneRead ==
    \A i \in 1..Len(files.input.lines) :
        Len(files.input.lines[i]) + 1 <= MAX_FORMULA_LENGTH - 1

\* C12 as stated, for every readable file: the lines counted are lines of the
\* file, the numbers reported so far are exactly those of the unbalanced
\* lines among the lines read, in increasing order, and at the return every
\* line has been read and the result is true exactly when no line is
\* unbalanced.
C12_Original_EveryLineValidatedAndReported ==
    (files.input.opens /\ pc \in {"validate_loop", "validated"})
        => /\ lineIndex <= Len(files.input.lines)
           /\ {ReportedLines[k] : k \in 1..Len(ReportedLines)} = UnbalancedUpTo(lineIndex)
           /\ \A k \in 1..(Len(ReportedLines) - 1) : ReportedLines[k] < ReportedLines[k + 1]
           /\ pc = "validated"
                => /\ lineIndex = Len(files.input.lines)
                   /\ returned <=> UnbalancedUpTo(Len(files.input.lines)) = {}

\* C12 for a readable file whose lines have at most MAX_FORMULA_LENGTH - 2
\* characters: the numbers reported so far are exactly those of the
\* unbalanced lines among the lines read, in increasing order, and at the
\* return every line has been read and the result is true exactly when no
\* line is unbalanced.
C12_EveryLineValidatedAndReported ==
    (LinesFitOneRead /\ files.input.opens /\ pc \in {"validate_loop", "validated"})
        => /\ lineIndex <= Len(files.input.lines)
           /\ {ReportedLines[k] : k \in 1..Len(ReportedLines)} = UnbalancedUpTo(lineIndex)
           /\ \A k \in 1..(Len(ReportedLines) - 1) : ReportedLines[k] < ReportedLines[k + 1]
           /\ pc = "validated"
                => /\ lineIndex = Len(files.input.lines)
                   /\ returned <=> UnbalancedUpTo(Len(files.input.lines)) = {}

C12_Witness ==
    /\ pc = "validated"
    /\ files.input.opens
    /\ files.input.lines = << <<"H","2","(","O">>, <<"H","2","O">> >>
    /\ lineIndex = 2
    /\ ReportedLines = <<1>>
    /\ returned = FALSE

(***************************************************************************)
(* C13.  An element symbol directly followed by a digit run of value 0     *)
(* contributes no token: the digit step takes the symbol's token off the   *)
(* stack, puts nothing back and leaves the entries below it as they were,  *)
(* whatever precedes or follows; processFormula on "H0" returns the empty  *)
(* string, on "H0H" it returns "H", on "(H0)2" the empty string.           *)
(***************************************************************************)
C13_ZeroMultiplierRemovesToken ==
    [][/\ (/\ pc = "scan"
           /\ isdigit(CharAt(formula, p))
           /\ isalpha(CharAt(formula, p - 1))
           /\ ReadMultiplier(formula, p, 0).value = 0)
            => /\ stack.size >= 1
               /\ Head(stack.top).data.chemSymbol[Len(Head(stack.top).data.chemSymbol)]
                      = formula[p - 1]
               /\ stack'.top = Tail(stack.top)
               /\ stack'.size = stack.size - 1
               /\ emptyPop' = emptyPop
       /\ (pc = "scan" /\ pc' = "returned")
            => /\ formula = <<"H","0">> => expandedFormula' = <<>>
               /\ formula = <<"H","0","H">> => expandedFormula' = <<"H">>
               /\ formula = <<"(","H","0",")","2">> => expandedFormula' = <<>>]_vars

C13_Witness ==
    /\ pc = "returned"
    /\ formula = <<"H","g","0","H">>
    /\ expandedFormula = <<"H">>

(***************************************************************************)
(* C14.  An empty group "()" with any multiplier or with none contributes  *)
(* no token and leaves no group marker: the ')' step right after a '('     *)
(* takes the marker off the stack, pushes nothing and moves past the       *)
(* multiplier; processFormula on "()", "()2" and "()0" returns the empty   *)
(* string with an empty main stack, on "H()2H" it returns "H H".           *)
(***************************************************************************)
C14_EmptyGroupLeavesNothing ==
    [][/\ (/\ pc = "scan"
           /\ CharAt(formula, p) = ")"
           /\ CharAt(formula, p - 1) = "(")
            => /\ stack.size >= 1
               /\ Head(stack.top).data = GroupMarker
               /\ stack'.top = Tail(stack.top)
               /\ stack'.size = stack.size - 1
               /\ emptyPop' = emptyPop
               /\ p' > p
               /\ \A i \in (p + 1)..(p' - 1) : isdigit(formula[i])
               /\ ~isdigit(CharAt(formula, p'))
       /\ (pc = "scan" /\ pc' = "returned")
            => /\ formula \in {<<"(",")">>, <<"(",")","2">>, <<"(",")","0">>}
                    => (stack.top = <<>> /\ stack.size = 0 /\ expandedFormula' = <<>>)
               /\ formula = <<"H","(",")","2","H">>
                    => expandedFormula' = <<"H"," ","H">>]_vars

C14_Witness ==
    /\ pc = "returned"
    /\ formula = <<"H","(",")","2","H">>
    /\ expandedFormula = <<"H"," ","H">>

(***************************************************************************)
(* C15.  If an allocation fails during one expansion (the output buffer's  *)
(* allocation or growth, a stack's creation, a node's allocation in a      *)
(* push), processFormula returns NULL and formulaProcessor writes no line  *)
(* for the formula; a string that is returned or written holds every token *)
(* of the expansion.                                                       *)
(***************************************************************************)
ExpectedExpansion(f) ==
    IF f = <<"U","u","e","6","5">> THEN ExpandSingle(f) ELSE JoinTokens(RefExpansion(f))

C15_AllocationFailureGivesNull ==
    /\ pc # "crashed"
    /\ (AllocFailures > 0 /\ pc \in {"returned", "returned_null", "written", "reported"})
        => /\ pc \in {"returned_null", "reported"}
           /\ outputFile = <<>>
    /\ pc = "returned" => expandedFormula = ExpectedExpansion(formula)
    /\ pc = "written" => outputFile = <<ExpectedExpansion(formula)>>

(***************************************************************************)
(* C16.  When processFormula returns, on the normal path and on every      *)
(* error path, the failed growth of the output buffer included, every      *)
(* stack node allocated for the formula has been freed: no node is left    *)
(* under the main stack or under the temporary stack.                      *)
(***************************************************************************)
C16_AllNodesFreedAtReturn ==
    pc \in {"returned", "returned_null", "written", "reported"}
        => (NodesLeft(stack) = 0 /\ NodesLeft(tempStack) = 0)

(***************************************************************************)
(* C17.  popUnion on a stack with no entries returns EXIT_FAILURE and      *)
(* changes neither the stack (top, size) nor the caller's output value and *)
(* type, on a freshly initialised stack and on a stack emptied by any      *)
(* sequence of pushes and pops.                                            *)
(***************************************************************************)
C17_PopOnEmptyChangesNothing ==
    [][(pc' = "popUnion" /\ ~IsNullStack(stack) /\ stack.top = <<>>)
        => /\ returned' = EXIT_FAILURE
           /\ ~IsNullStack(stack')
           /\ stack'.top = <<>>
           /\ stack'.size = stack.size
           /\ poppedType' = poppedType
           /\ poppedData' = poppedData]_vars

\* 'a' was pushed and popped, and the next pop has failed
C17_Witness ==
    /\ pc = "popUnion"
    /\ returned = EXIT_FAILURE
    /\ ~IsNullStack(stack)
    /\ stack.top = <<>>
    /\ stderr = <<"Can't pop from empty/null union stack.">>
    /\ poppedType = "CHAR_TYPE"
    /\ poppedData = "a"

(***************************************************************************)
(* C18.  The union stack is last-in-first-out over mixed entries: a        *)
(* successful push puts the entry on top with its tag and payload and      *)
(* leaves the entries below as they were; a successful popUnion returns    *)
(* the tag and payload of the top entry and leaves the entries below it    *)
(* unchanged and in order; popping right after a push gives back the       *)
(* pushed entry and the stack as it was.                                   *)
(***************************************************************************)
\* the same nodes in the same order, tags compared before payloads
SameNodes(a, b) ==
    /\ Len(a) = Len(b)
    /\ \A i \in 1..Len(a) : a[i].dataType = b[i].dataType /\ a[i].data = b[i].data

C18_LastInFirstOut ==
    [][/\ (pc' = "popUnion" /\ returned' = EXIT_SUCCESS)
            => /\ poppedType' = Head(stack.top).dataType
               /\ poppedData' = Head(stack.top).data
               /\ SameNodes(stack'.top, Tail(stack.top))
       /\ (pc' = "pushCharUnion" /\ returned' = EXIT_SUCCESS)
            => /\ Len(stack'.top) = Len(stack.top) + 1
               /\ SameNodes(Tail(stack'.top), stack.top)
               /\ Head(stack'.top).dataType = "CHAR_TYPE"
               /\ Head(stack'.top).data \in StackChars
       /\ (pc' = "pushElementUnion" /\ returned' = EXIT_SUCCESS)
            => /\ Len(stack'.top) = Len(stack.top) + 1
               /\ SameNodes(Tail(stack'.top), stack.top)
               /\ Head(stack'.top).dataType = "ELEMENT_TYPE"
               /\ Head(stack'.top).data \in StackElements
       /\ ~IsNullStack(stack')
            => /\ \A c \in StackChars :
                     LET r == popUnion(pushCharUnion(stack', c), poppedData', poppedType')
                     IN  /\ r.rc = EXIT_SUCCESS
                         /\ r.returnType = "CHAR_TYPE"
                         /\ r.returnValue = c
                         /\ SameNodes(r.stack.top, stack'.top)
               /\ \A element \in StackElements :
                     LET r == popUnion(pushElementUnion(stack', element),
                                       poppedData', poppedType')
                     IN  /\ r.rc = EXIT_SUCCESS
                         /\ r.returnType = "ELEMENT_TYPE"
                         /\ r.returnValue = element
                         /\ SameNodes(r.stack.top, stack'.top)]_vars

\* 'a' pushed, He pushed, one pop: He comes back and 'a' stays
C18_Witness ==
    /\ pc = "popUnion"
    /\ returned = EXIT_SUCCESS
    /\ poppedType = "ELEMENT_TYPE"
    /\ poppedData = Element(<<"H","e">>, 2)
    /\ ~IsNullStack(stack)
    /\ SameNodes(stack.top, <<[data |-> "a", dataType |-> "CHAR_TYPE"]>>)
    /\ stderr = <<>>

(***************************************************************************)
(* C19.  After any sequence of initUnionStack, pushCharUnion,              *)
(* pushElementUnion and popUnion calls, successful or failing, the size    *)
(* field of the stack equals the number of nodes reachable from top, is    *)
(* never negative, and isEmptyUnion is true exactly when size is 0.        *)
(***************************************************************************)
C19_SizeCountsNodes ==
    (pc \in StackCalls /\ ~IsNullStack(stack))
        => /\ stack.size = Len(stack.top)
           /\ stack.size >= 0
           /\ isEmptyUnion(stack) <=> stack.size = 0

\* two nodes on the stack after a push has failed and a pop on empty has failed
C19_Witness ==
    /\ pc = "pushCharUnion"
    /\ returned = EXIT_FAILURE
    /\ ~IsNullStack(stack)
    /\ stack.size = 2
    /\ stderr = <<"Can't pop from empty/null union stack.",
                  "Unable to allocate memory for new node.">>

(***************************************************************************)
(* C20.  Loading a readable periodic-table file with any number k of       *)
(* records, 0 <= k <= 118, is a success: loadPeriodicTable returns k and   *)
(* main goes on to the requested mode; only a file that cannot be opened   *)
(* is reported as "Failed to load periodic table.".                        *)
(***************************************************************************)
ReportedLoadFailure ==
    \E i \in 1..Len(stdout) : stdout[i].text = "Failed to load periodic table."

C20_ReadableTableIsLoaded ==
    /\ ReportedLoadFailure => ~files.table.opens
    /\ (files.table.opens /\ args.argc \in {4, 5} /\ pc # "main")
        => /\ numElements = Len(files.table.records)
           /\ \/ pc \in {"option", "validate", "validate_loop", "validated"}
              \/ pc = "exited" /\ ~ReportedLoadFailure

(***************************************************************************)
(* The Latin-square game.                                                  *)
(***************************************************************************)
\* a command i,j=val has just been read at a prompt of play, and it is 0,0=0
ZeroCommandRead ==
    /\ pc \in {"play", "reprompt"}
    /\ pc' \in {"check", "exited"}
    /\ game'.i = 0 /\ game'.j = 0 /\ game'.val = 0

\* C21: whenever the command 0,0=0 is entered at a prompt of the game, the
\* re-prompt after a rejected command included, the board is written to the
\* output file as it is, the program exits, and no cell is modified (stated
\* for an output file whose name fits in outfile and that can be opened).
C21_ZeroCommandSavesAndExits ==
    [][(ZeroCommandRead /\ files.outputOpens
            /\ ~writeLatinSquare(files.name, game.square, game.size, TRUE).undefined)
         => /\ pc' = "exited"
            /\ outputFile'
                   = writeLatinSquare(files.name, game.square, game.size, TRUE).file
            /\ game'.square = game.square]_vars

\* no non-zero absolute value occurs twice in a row or twice in a column
NoDuplicates(square, size) ==
    \A r \in 1..size : \A c1, c2 \in 1..size :
        /\ (square[r][c1] # 0 /\ abs(square[r][c1]) = abs(square[r][c2])) => c1 = c2
        /\ (square[c1][r] # 0 /\ abs(square[c1][r]) = abs(square[c2][r])) => c1 = c2

C24_DefinedStepsKeepNoDuplicates ==
    [][(NoDuplicates(game.square, game.size) /\ pc' # "undefined")
         => NoDuplicates(game'.square, game'.size)]_vars

\* a game completed by accepted moves, the board still without repeats
C24_CompletedWithoutRepeats ==
    /\ pc = "exited"
    /\ game.size = 3
    /\ emptyCellCount(game.square, game.size) = 0
    /\ InsideBoard(game)
    /\ game.square[game.i][game.j] = game.val
    /\ NoDuplicates(game.square, game.size)

\* C26: whenever play is about to assign to square[i-1][j-1], the command's
\* i and j are in 1..size: every write of play lands inside the board.
C26_WritesInsideBoard ==
    pc = "move" => InsideBoard(game)

(***************************************************************************)
(* The tokenizer shared by the expander and the proton counter.            *)
(***************************************************************************)
\* a table in which no symbol is found
BlankTable == [k \in 1..MAX_ELEMENTS |-> Element(<<>>, 0)]

\* C22: at an alphabetic character the expander consumes three characters
\* when they are uppercase, lowercase, lowercase, otherwise two when they are
\* uppercase, lowercase, otherwise one; the token pushed is exactly the
\* characters consumed, and the proton counter at the same cursor takes the
\* same token and advances by the same number of characters.
C22_TokenizerRule ==
    [][(pc = "scan" /\ isalpha(CharAt(formula, p)))
         => LET sym == RefSymbol(formula, p)
            IN  /\ p' = p + Len(sym)
                /\ stack'.size = stack.size + 1
                /\ stack'.top[1].dataType = "ELEMENT_TYPE"
                /\ stack'.top[1].data.chemSymbol = sym
                /\ SubSeq(stack'.top, 2, Len(stack'.top)) = stack.top
                /\ CounterSymbol(formula, p) = sym
                /\ ProtonAlphaStep(formula, CountState(p, 0), BlankTable).p
                       = p + Len(sym)]_vars

\* a lone lowercase letter and then a three-letter symbol have been consumed
C22_Witness ==
    /\ pc = "scan"
    /\ p = 5
    /\ SubSeq(formula, 1, 4) = <<"g", "H", "g", "g">>
    /\ stack.size = 2
    /\ stack.top[1].data.chemSymbol = <<"H", "g", "g">>
    /\ stack.top[2].data.chemSymbol = <<"g">>

\* the element tokens among the entries of a stack, oldest entry first: the
\* order in which processFormula writes them
ElementTokens(st) ==
    SelectSeq(BottomToTop(st), IsElementSymbol)

\* C23: for the line processFormula writes for a formula, the symbols that
\* countProtons looks up when it reads the line back are, token for token
\* and in order, the element tokens that processFormula wrote to the line.
C23_CounterReadsTheWrittenTokens ==
    [][(pc = "scan" /\ pc' = "returned")
         => LookedUp(expandedFormula' \o <<NewLine>>, 1) = ElementTokens(stack)]_vars

\* a line with a two-letter, a one-letter and a lowercase token has been
\* written, and the lowercase token follows the one-letter token
C23_Witness ==
    /\ pc = "returned"
    /\ expandedFormula = <<"H", "g", " ", "H", " ", "g">>
    /\ LookedUp(expandedFormula \o <<NewLine>>, 1)
           = << <<"H", "g">>, <<"H">>, <<"g">> >>

(***************************************************************************)
(* The two buffers of processFormula.                                      *)
(***************************************************************************)
\* C25: for a balanced formula line of at most 1023 characters, each time a
\* ')' is processed the number of entries popped into tempArray is at most
\* MAX_FORMULA_LENGTH, the capacity of tempArray: no write goes past its end.
C25_GroupFitsTempArray ==
    (ProperlyNested(formula) /\ Len(formula) <= MAX_FORMULA_LENGTH - 1)
        => tempIndex <= MAX_FORMULA_LENGTH

\* the indices of the output buffer written by a step of the output phase:
\* a round of the loop writes the symbol with its terminator from the old
\* length on and the space over the terminator; the return writes the final
\* terminator at the length it leaves
WrittenIndices ==
    IF pc' = "returned" THEN {length'} ELSE length..(length' - 1)

\* C27: while processFormula builds the output, every index written into the
\* buffer (the symbol with its terminator, the space, the final terminator)
\* is smaller than the capacity the buffer has at that write; the capacity
\* is 256 when the output starts and is doubled at most once per token.
C27_OutputWritesInsideBuffer ==
    [][/\ (pc = "long_scan" /\ pc' = "long_output")
            => (bufferSize' = 256 /\ length' = 0)
       /\ pc = "long_output"
            => /\ \A index \in WrittenIndices : index >= 0 /\ index < bufferSize'
               /\ bufferSize' \in {bufferSize, Double(bufferSize)}
               /\ pc' = "returned" => bufferSize' = bufferSize]_vars

\* more than a thousand three-letter tokens have been written and the buffer
\* has been doubled four times
C27_Witness ==
    /\ pc = "returned"
    /\ bufferSize = 4096
    /\ length > 2048
    /\ SubSeq(expandedFormula, length - 6, length)
           = <<"H", "g", "g", " ", "H", "g", "g">>

(***************************************************************************)
(* The slots of the table that loadPeriodicTable did not fill.             *)
(***************************************************************************)
\* C28: with fewer than MAX_ELEMENTS records loaded, every lookup made by
\* countProtons reads the numElements loaded entries only: the number added
\* to the total is the one a search of those entries gives, whatever the
\* slots after them hold.
C28_LookupsReadLoadedEntriesOnly ==
    [][(/\ pc = "count"
        /\ isalpha(CharAt(formula, p))
        /\ numElements < MAX_ELEMENTS)
         => totalAtomicNumber'
              = totalAtomicNumber
                  + getAtomicNumber(periodicTable, numElements,
                                    CounterSymbol(formula, p))]_vars

====
